---- MODULE Spec2Model ----
(***************************************************************************)
(* Zomboid saver: the backup catalog under <backup_root>/<game_mode>, the  *)
(* saves under <save_root>/<game_mode>, the process-wide settings, and the *)
(* operations of ZomboidSaverBackend (backend.py), ZAS (cli.py) and the    *)
(* configuration module (config.py).                                       *)
(*                                                                         *)
(* File and directory names are sequences of one-character strings, so     *)
(* that the name arithmetic of the code (f-strings, Path.suffix, Path.stem,*)
(* str.split, str.join) is computed and not assumed.                       *)
(***************************************************************************)
EXTENDS Integers, Sequences, FiniteSets, TLC

VARIABLES clock, saves, dirExists, backups, compress, keepLastN, quotas,
          defaultQuota, locked, parser, db, passes, poller, last

vars ==
    <<clock, saves, dirExists, backups, compress, keepLastN, quotas,
      defaultQuota, locked, parser, db, passes, poller, last>>

(***************************************************************************)
(* Bounds of the model.                                                    *)
(***************************************************************************)
\* time.time() runs over 0..MaxClock (whole seconds)
MaxClock == 1
\* at most MaxBackups entries are ever held by the backup directory
MaxBackups == 2

\* the entries a buffer handed to the parser is built of, at most
MaxEntries == 2

\* save_poller sleeps at most MaxSleeps times
MaxSleeps == 2

(***************************************************************************)
(* Program constants.                                                      *)
(***************************************************************************)
\* quota_mb * 1024 * 1024
BytesPerMB == 1048576

(***************************************************************************)
(* Strings.                                                                *)
(***************************************************************************)
Digit == <<"0", "1", "2", "3", "4", "5", "6", "7", "8", "9">>

\* str(int): the decimal digits of n
RECURSIVE IntToStr(_)
IntToStr(n) ==
    IF n < 10 THEN <<Digit[n + 1]>>
    ELSE IntToStr(n \div 10) \o <<Digit[(n % 10) + 1]>>

ZipSuffix == <<".", "z", "i", "p">>

\* index of the last occurrence of character c in s, 0 when there is none
RECURSIVE RFind(_, _)
RFind(s, c) ==
    IF s = <<>> THEN 0
    ELSE IF s[Len(s)] = c THEN Len(s)
    ELSE RFind(SubSeq(s, 1, Len(s) - 1), c)

\* pathlib: PurePath.suffix of a final path component
Suffix(name) ==
    LET i == RFind(name, ".")
    IN IF 1 < i /\ i < Len(name) THEN SubSeq(name, i, Len(name)) ELSE <<>>

\* pathlib: PurePath.stem of a final path component
Stem(name) ==
    LET i == RFind(name, ".")
    IN IF 1 < i /\ i < Len(name) THEN SubSeq(name, 1, i - 1) ELSE name

\* c in s
Contains(s, c) == \E i \in 1..Len(s) : s[i] = c

\* str.split(sep) for a one-character separator: the list of the pieces
RECURSIVE Split(_, _)
Split(s, sep) ==
    IF ~Contains(s, sep) THEN <<s>>
    ELSE LET i == CHOOSE k \in 1..Len(s) :
                      s[k] = sep /\ \A j \in 1..(k - 1) : s[j] # sep
         IN <<SubSeq(s, 1, i - 1)>> \o Split(SubSeq(s, i + 1, Len(s)), sep)

\* sep.join(parts)
RECURSIVE Join(_, _)
Join(parts, sep) ==
    IF parts = <<>> THEN <<>>
    ELSE IF Len(parts) = 1 THEN parts[1]
    ELSE parts[1] \o <<sep>> \o Join(Tail(parts), sep)

(***************************************************************************)
(* The file system: trees of files, archives, catalog entries.             *)
(*                                                                         *)
(* A tree is the set of the regular files below a directory, each a record *)
(* [path, data]: path is the sequence of the path's components, data a     *)
(* token for the file's bytes.  A zip archive is a set of members          *)
(* [arcname, data], arcname being the components joined by "/".            *)
(***************************************************************************)
DataSize == [d1 |-> 1048576, d2 |-> 1]

TreeSmall == {[path |-> <<"save.dat">>, data |-> "d1"]}

TreeBig ==
    {[path |-> <<"save.dat">>, data |-> "d1"],
     [path |-> <<"nested", "asset.bin">>, data |-> "d2"]}

Trees == {TreeSmall, TreeBig}

\* the sum of the sizes of the data of a set of files or archive members
RECURSIVE SumData(_)
SumData(S) ==
    IF S = {} THEN 0
    ELSE LET x == CHOOSE y \in S : TRUE IN DataSize[x.data] + SumData(S \ {x})

\* sum of st_size over the regular files of a tree (rglob("*"), is_file())
TreeSize(tree) == SumData(tree)

\* shutil.make_archive(base, "zip", root): one member per file, named by its
\* path relative to root
ArcName(path) == Join([i \in 1..Len(path) |-> <<path[i]>>], "/")

MakeArchive(tree) == {[arcname |-> ArcName(f.path), data |-> f.data] : f \in tree}

\* shutil.unpack_archive(zip, target): each member is written to target/arcname
MemberPath(arcname) ==
    LET parts == Split(arcname, "/") IN [i \in 1..Len(parts) |-> parts[i][1]]

UnpackArchive(members) == {[path |-> MemberPath(m.arcname), data |-> m.data] : m \in members}

\* shutil.copytree(src, dst): every file of src, below dst
CopyTree(tree) == {[path |-> f.path, data |-> f.data] : f \in tree}

\* the size of the archive file make_archive writes (payload stored as is)
ArchiveSize(members) == SumData(members)

\* an entry of <backup_root>/<game_mode>: a directory ("dir"), a regular file
\* holding a zip archive ("zip") or any other regular file ("raw")
DirEntry(name, tree, mtime) ==
    [name |-> name, kind |-> "dir", mtime |-> mtime, tree |-> tree,
     members |-> {}, size |-> 0]

ZipEntry(name, members, mtime) ==
    [name |-> name, kind |-> "zip", mtime |-> mtime, tree |-> {},
     members |-> members, size |-> ArchiveSize(members)]

RawEntry(name, size, mtime) ==
    [name |-> name, kind |-> "raw", mtime |-> mtime, tree |-> {},
     members |-> {}, size |-> size]

IsFile(e) == e.kind \in {"zip", "raw"}

IsDir(e) == e.kind = "dir"

Names(bk) == {e.name : e \in bk}

Lookup(bk, name) == CHOOSE e \in bk : e.name = name

NoSave == [exists |-> FALSE, tree |-> {}, mtime |-> 0]

SaveDir(tree, mtime) == [exists |-> TRUE, tree |-> tree, mtime |-> mtime]

ToSet(seq) == {seq[i] : i \in 1..Len(seq)}

\* Path.iterdir(): the entries in an order the operating system picks
RECURSIVE Listings(_)
Listings(bk) ==
    IF bk = {} THEN {<<>>}
    ELSE UNION {{<<e>> \o rest : rest \in Listings(bk \ {e})} : e \in bk}

(***************************************************************************)
(* list.sort / sorted on st_mtime: both are stable.                        *)
(***************************************************************************)
InsertAsc(sorted, x) ==
    LET k == Cardinality({i \in 1..Len(sorted) : sorted[i].mtime <= x.mtime})
    IN SubSeq(sorted, 1, k) \o <<x>> \o SubSeq(sorted, k + 1, Len(sorted))

InsertDesc(sorted, x) ==
    LET k == Cardinality({i \in 1..Len(sorted) : sorted[i].mtime >= x.mtime})
    IN SubSeq(sorted, 1, k) \o <<x>> \o SubSeq(sorted, k + 1, Len(sorted))

\* sorted() left out: the list as get_backups returns it, newest first
Unsorted(s) == s

RECURSIVE SortAsc(_)
SortAsc(s) ==
    IF s = <<>> THEN <<>>
    ELSE InsertAsc(SortAsc(SubSeq(s, 1, Len(s) - 1)), s[Len(s)])

RECURSIVE SortDesc(_)
SortDesc(s) ==
    IF s = <<>> THEN <<>>
    ELSE InsertDesc(SortDesc(SubSeq(s, 1, Len(s) - 1)), s[Len(s)])

\* "save_quotas_mb.get(save_name) or default_save_quota_mb": an entry of 0
\* falls back to the default
ResolveSaveQuotaOrDefault(q, dflt, saveName) ==
    IF saveName \in DOMAIN q /\ q[saveName] # 0 THEN q[saveName] ELSE dflt

(***************************************************************************)
(* config.py                                                               *)
(***************************************************************************)
\* settings.save_quotas_mb.get(save_name, settings.default_save_quota_mb);
\* q is settings.save_quotas_mb, a function on the names that have an entry,
\* dflt is settings.default_save_quota_mb
ResolveSaveQuota(q, dflt, saveName) ==
    IF saveName \in DOMAIN q THEN q[saveName] ELSE dflt

(***************************************************************************)
(* backend.py: the catalog                                                 *)
(***************************************************************************)
\* "_".join(item_name.split("_")[1:])
BackupSaveName(itemName) == Join(Tail(Split(itemName, "_")), "_")

\* item.stem if item.suffix == ".zip" else item.name
ItemName(e) == IF Suffix(e.name) = ZipSuffix THEN Stem(e.name) ELSE e.name

\* the loop body with the test "item.is_file()" alone: every file is appended
ListedAnyFile(e, filter) ==
    /\ ~(/\ filter # <<>>
         /\ Contains(ItemName(e), "_")
         /\ BackupSaveName(ItemName(e)) # filter)
    /\ (IsFile(e) \/ IsDir(e))

\* the body of the loop of get_backups: is item appended to the list?
Listed(e, filter) ==
    /\ ~(/\ filter # <<>>
         /\ Contains(ItemName(e), "_")
         /\ BackupSaveName(ItemName(e)) # filter)
    /\ \/ IsFile(e) /\ Suffix(e.name) = ZipSuffix
       \/ IsDir(e)

\* the entries of the backup directory that the loop of get_backups appends
Appended(bk, filter) == {e \in bk : Listed(e, filter)}

\* get_backups(filter_save_name): appended is the list its loop has built, in
\* the order iterdir yields the entries; the result is newest first
GetBackups(exists, appended) == IF ~exists THEN <<>> ELSE SortDesc(appended)

\* _get_backup_size
GetBackupSize(e) == IF IsFile(e) THEN e.size ELSE TreeSize(e.tree)

\* sum(self._get_backup_size(item) for item in backups)
RECURSIVE TotalBytes(_)
TotalBytes(list) ==
    IF list = <<>> THEN 0 ELSE GetBackupSize(Head(list)) + TotalBytes(Tail(list))

\* get_save_disk_usage(save_name): <<save_bytes, backup_bytes>>, list being
\* what get_backups(filter_save_name=save_name) returns
GetSaveDiskUsage(sv, list) ==
    <<IF sv.exists THEN TreeSize(sv.tree) ELSE 0, TotalBytes(list)>>

(***************************************************************************)
(* backend.py: retention                                                   *)
(***************************************************************************)
\* bk without the entries of list (every _remove_backup succeeding)
RemoveAll(bk, list) == bk \ ToSet(list)

\* _remove_backup(e) raises: shutil.rmtree(ignore_errors=True) drops the error
\* of a directory, Path.unlink(missing_ok=True) drops no error but that of a
\* missing file
RemoveRaises(e, lk) == ~IsDir(e) /\ e.name \in lk

\* the victims the removal loop reaches: those up to the first whose removal
\* raises
RECURSIVE Reached(_, _)
Reached(victims, lk) ==
    IF victims = <<>> THEN <<>>
    ELSE IF RemoveRaises(Head(victims), lk) THEN <<Head(victims)>>
    ELSE <<Head(victims)>> \o Reached(Tail(victims), lk)

\* the exception that ends the removal loop, "" when it runs to its end
RemovalError(victims, lk) ==
    IF \E i \in 1..Len(victims) : RemoveRaises(victims[i], lk)
    THEN "PermissionError" ELSE ""

\* the victims that are gone after the loop
Gone(victims, lk) == SelectSeq(Reached(victims, lk), LAMBDA e : e.name \notin lk)

\* the loop with the test "rest < quota_bytes": a rest equal to the quota
\* costs one backup more
RECURSIVE QuotaLoopStrict(_, _, _)
QuotaLoopStrict(ordered, total, quotaBytes) ==
    IF ordered = <<>> THEN <<>>
    ELSE LET rest == total - GetBackupSize(Head(ordered))
         IN <<Head(ordered)>> \o
            (IF rest < quotaBytes THEN <<>>
             ELSE QuotaLoopStrict(Tail(ordered), rest, quotaBytes))

\* the loop with an unconditional break: one backup is removed, whatever is
\* left
QuotaLoopOnce(ordered, total, quotaBytes) ==
    IF ordered = <<>> THEN <<>> ELSE <<Head(ordered)>>

\* the loop that spares the newest backup, whatever its size
RECURSIVE QuotaLoopSpare(_, _, _)
QuotaLoopSpare(ordered, total, quotaBytes) ==
    IF Len(ordered) <= 1 THEN <<>>
    ELSE LET rest == total - GetBackupSize(Head(ordered))
         IN <<Head(ordered)>> \o
            (IF rest <= quotaBytes THEN <<>>
             ELSE QuotaLoopSpare(Tail(ordered), rest, quotaBytes))

\* the loop of enforce_quota over the backups, oldest first: the entries it
\* removes.  total is the running total before the first entry of ordered.
RECURSIVE QuotaLoop(_, _, _)
QuotaLoop(ordered, total, quotaBytes) ==
    IF ordered = <<>> THEN <<>>
    ELSE LET rest == total - GetBackupSize(Head(ordered))
         IN <<Head(ordered)>> \o
            (IF rest <= quotaBytes THEN <<>>
             ELSE QuotaLoop(Tail(ordered), rest, quotaBytes))

\* enforce_quota(save_name): the list of the entries it removes, list being
\* what get_backups(filter_save_name=save_name) returns
EnforceQuotaRemoved(q, dflt, list, saveName) ==
    LET quotaMb == ResolveSaveQuota(q, dflt, saveName)
        quotaBytes == quotaMb * BytesPerMB
    IN IF quotaMb <= 0 THEN <<>>
       ELSE IF list = <<>> THEN <<>>
       ELSE IF TotalBytes(list) <= quotaBytes THEN <<>>
       ELSE QuotaLoop(SortAsc(list), TotalBytes(list), quotaBytes)

\* ordered[retain:], which keeps the oldest entries instead of the newest
AllButFirst(ordered, retain) ==
    SubSeq(ordered, retain + 1, Len(ordered))

\* ordered[:-retain], for retain > 0
AllButLast(ordered, retain) ==
    SubSeq(ordered, 1, IF Len(ordered) > retain THEN Len(ordered) - retain ELSE 0)

\* enforce_keep_last(save_name): the list of the entries it removes, list
\* being what get_backups(filter_save_name=save_name) returns
EnforceKeepLastRemoved(retain, list) ==
    IF retain <= 0 THEN <<>>
    ELSE IF Len(list) <= retain THEN <<>>
    ELSE AllButLast(SortAsc(list), retain)

(***************************************************************************)
(* backend.py: enforce_quota, statement by statement, for passes that run  *)
(* side by side in separate processes.  A pass holds the locals of         *)
(* enforce_quota: backups (the list of get_backups), quota_bytes,          *)
(* total_bytes, the sorted list still to walk, backup_size, removed, and   *)
(* the exception that ended it.  An entry of a list is absent once the     *)
(* directory has no entry of its name.                                     *)
(***************************************************************************)
IdlePass ==
    [pc |-> "idle", backups |-> <<>>, quota_bytes |-> 0, idx |-> 0,
     total_bytes |-> 0, ordered |-> <<>>, backup_size |-> 0, removed |-> <<>>,
     err |-> ""]

Present(bk, e) == e.name \in Names(bk)

\* entry.stat() raises FileNotFoundError for one of the entries of list
StatRaises(bk, list) == \E i \in 1..Len(list) : ~Present(bk, list[i])

\* _get_backup_size of a path: is_file() is False and rglob finds nothing
\* once the entry is gone
SizeNow(bk, e) == IF Present(bk, e) THEN GetBackupSize(e) ELSE 0

\* the test of the quota with <
QuotaMetStrict(total, quotaBytes) == total < quotaBytes

\* total_bytes <= quota_bytes
QuotaMet(total, quotaBytes) == total <= quotaBytes

(***************************************************************************)
(* backend.py: backup and restore                                          *)
(***************************************************************************)
\* f"{timestamp}_{save_name}"
ZipName(timestamp, saveName) == IntToStr(timestamp) \o <<"_">> \o saveName

\* copytree(src, base, dirs_exist_ok=True): an existing destination is no error
ArchiveErrorExistOk(bk, cmp, base) ==
    IF cmp
    THEN IF (base \o ZipSuffix) \in Names(bk) /\ IsDir(Lookup(bk, base \o ZipSuffix))
         THEN "IsADirectoryError" ELSE ""
    ELSE ""

\* shutil.make_archive(base, "zip", src) / shutil.copytree(src, base): the
\* error raised, "" when there is none
ArchiveError(bk, cmp, base) ==
    IF cmp
    THEN IF (base \o ZipSuffix) \in Names(bk) /\ IsDir(Lookup(bk, base \o ZipSuffix))
         THEN "IsADirectoryError" ELSE ""
    ELSE IF base \in Names(bk) THEN "FileExistsError" ELSE ""

\* the artifact written for the save sv at base: an archive base.zip written
\* now, or a copy of the tree that copystat gives the times of the source
Artifact(cmp, base, sv, now) ==
    IF cmp THEN ZipEntry(base \o ZipSuffix, MakeArchive(sv.tree), now)
    ELSE DirEntry(base, CopyTree(sv.tree), sv.mtime)

\* the backup directory after the artifact is written: make_archive opens
\* base.zip for writing, so an archive of that name is replaced
WithArtifact(bk, art) == {e \in bk : e.name # art.name} \cup {art}

\* backup_save without the test of save_path.exists(): a missing save is
\* archived as an empty tree
BackupSaveUnchecked(sv, bk, cmp, saveName, now) ==
    LET base == ZipName(now, saveName)
        art == Artifact(cmp, base, sv[saveName], now)
    IN IF ArchiveError(bk, cmp, base) # ""
       THEN [err |-> ArchiveError(bk, cmp, base), ret |-> <<>>, backups |-> bk]
       ELSE [err |-> "", ret |-> art.name, backups |-> WithArtifact(bk, art)]

\* backup_save(save_name): [err, ret, backups]
BackupSave(sv, bk, cmp, saveName, now) ==
    LET base == ZipName(now, saveName)
        art == Artifact(cmp, base, sv[saveName], now)
    IN IF ~sv[saveName].exists
       THEN [err |-> "FileNotFoundError", ret |-> <<>>, backups |-> bk]
       ELSE IF ArchiveError(bk, cmp, base) # ""
       THEN [err |-> ArchiveError(bk, cmp, base), ret |-> <<>>, backups |-> bk]
       ELSE [err |-> "", ret |-> art.name, backups |-> WithArtifact(bk, art)]

\* shutil.unpack_archive(backup_p, target) when backup_p.suffix == ".zip",
\* shutil.copytree(backup_p, target) otherwise: the error raised
RestoreError(bk, path) ==
    IF Suffix(path) = ZipSuffix
    THEN IF path \in Names(bk) /\ Lookup(bk, path).kind = "zip" THEN "" ELSE "ReadError"
    ELSE IF path \notin Names(bk) THEN "FileNotFoundError"
    ELSE IF ~IsDir(Lookup(bk, path)) THEN "NotADirectoryError"
    ELSE ""

\* a restore that unpacks every artifact as an archive
RestoredUnpacked(e, now) == SaveDir(UnpackArchive(e.members), now)

\* the target directory a successful restore of entry e creates
Restored(e, now) ==
    IF Suffix(e.name) = ZipSuffix THEN SaveDir(UnpackArchive(e.members), now)
    ELSE SaveDir(CopyTree(e.tree), e.mtime)

\* restore_backup without the rmtree of the target: the files of the old
\* target that the artifact does not overwrite stay
RestoreTargetKept(old, bk, path, now) ==
    IF RestoreError(bk, path) # "" THEN old
    ELSE LET new == Restored(Lookup(bk, path), now)
         IN SaveDir(new.tree \cup
                    {f \in old.tree : \A g \in new.tree : g.path # f.path},
                    new.mtime)

\* restore_backup(backup_path, target_save_name): the target afterwards.
\* An existing target is removed first, whatever follows.
RestoreTarget(old, bk, path, now) ==
    IF RestoreError(bk, path) # "" THEN NoSave ELSE Restored(Lookup(bk, path), now)

(***************************************************************************)
(* cli.py                                                                  *)
(***************************************************************************)
\* ZAS.keep_last_n_saves(retain): the entries it removes
KeepLastNSavesRemoved(retain, exists, order) ==
    IF retain <= 0 THEN <<>>
    ELSE IF ~exists THEN <<>>
    ELSE AllButLast(SortAsc(order), retain)

(***************************************************************************)
(* zomboid_saver_ui.py: perform_backup                                     *)
(***************************************************************************)
\* removed_quota + removed_keep_last, reported as it is
Concatenated(paths) == paths

\* list(dict.fromkeys(paths)): each path once, at its first place
RECURSIVE Deduplicated(_)
Deduplicated(paths) ==
    IF paths = <<>> THEN <<>>
    ELSE LET front == Deduplicated(SubSeq(paths, 1, Len(paths) - 1))
             path == paths[Len(paths)]
         IN IF \E i \in 1..Len(front) : front[i] = path THEN front
            ELSE Append(front, path)

(***************************************************************************)
(* cli.py: ZAS.save_poller                                                 *)
(***************************************************************************)
\* time.sleep(10)
SleepSec == 10

\* the test of the loop without has_just_started
DueByClock(now, next_save_time, has_just_started) == now >= next_save_time

\* time.time() >= self.next_save_time or self.has_just_started
Due(now, next_save_time, has_just_started) ==
    now >= next_save_time \/ has_just_started

\* the except clauses of save_poller: the exit code, -1 when the exception
\* is not caught and leaves save_poller
ExitCode(err) ==
    IF err = "KeyboardInterrupt" THEN 0
    ELSE IF err = "ValueError" THEN 1
    ELSE -1

(***************************************************************************)
(* player_parser.py: ZomboidBinaryParser.  A buffer is a sequence of       *)
(* bytes 0..255, the position counts the bytes read.  A value is tagged    *)
(* with its Python type: an int, a float (by the 8 bytes of its big-endian *)
(* encoding, 0.0 being eight zero bytes), a str (by its code points), a    *)
(* bool, None.  The buffers hold ASCII bytes and the byte 0xFF: an ASCII   *)
(* byte decodes to its own code point, 0xFF is no UTF-8.                   *)
(***************************************************************************)
IntValue(n) == [t |-> "int", v |-> n]

FloatValue(bytes) == [t |-> "float", v |-> bytes]

StrValue(codes) == [t |-> "str", v |-> codes]

BoolValue(b) == [t |-> "bool", v |-> b]

NoneValue == [t |-> "None", v |-> 0]

ZeroDouble == <<0, 0, 0, 0, 0, 0, 0, 0>>

\* read_byte that looks at the byte under the cursor and leaves it there
ReadByteStuck(data, pos) ==
    IF pos >= Len(data) THEN [value |-> 0, position |-> pos]
    ELSE [value |-> data[pos + 1], position |-> pos]

\* read_byte: the value read and the position afterwards
ReadByte(data, pos) ==
    IF pos >= Len(data) THEN [value |-> 0, position |-> pos]
    ELSE [value |-> data[pos + 1], position |-> pos + 1]

\* read_short: struct.unpack(">H", ...)
ReadShort(data, pos) ==
    IF pos + 2 > Len(data) THEN [value |-> 0, position |-> pos]
    ELSE [value |-> data[pos + 1] * 256 + data[pos + 2], position |-> pos + 2]

\* read_int that advances the cursor before it tests for the end of the buffer
ReadIntAdvancing(data, pos) ==
    IF pos + 4 > Len(data) THEN [value |-> 0, position |-> pos + 4]
    ELSE [value |-> ((data[pos + 1] * 256 + data[pos + 2]) * 256
                        + data[pos + 3]) * 256 + data[pos + 4],
          position |-> pos + 4]

\* read_int: struct.unpack(">I", ...)
ReadInt(data, pos) ==
    IF pos + 4 > Len(data) THEN [value |-> 0, position |-> pos]
    ELSE [value |-> ((data[pos + 1] * 256 + data[pos + 2]) * 256
                        + data[pos + 3]) * 256 + data[pos + 4],
          position |-> pos + 4]

\* read_double: struct.unpack(">d", ...)
ReadDouble(data, pos) ==
    IF pos + 8 > Len(data) THEN [value |-> ZeroDouble, position |-> pos]
    ELSE [value |-> SubSeq(data, pos + 1, pos + 8), position |-> pos + 8]

\* bytes.decode("utf-8") raises UnicodeDecodeError
Utf8Invalid(bytes) == \E i \in 1..Len(bytes) : bytes[i] >= 128

\* bytes.decode("utf-8") of ASCII bytes; bytes.decode("latin-1"), which maps
\* every byte to the code point of its value
Utf8Decode(bytes) == [i \in 1..Len(bytes) |-> bytes[i]]

Latin1Decode(bytes) == [i \in 1..Len(bytes) |-> bytes[i]]

\* read_string
ReadString(data, pos) ==
    LET length == ReadShort(data, pos)
        string_bytes == SubSeq(data, length.position + 1,
                               length.position + length.value)
    IN IF length.value = 0 \/ length.position + length.value > Len(data)
       THEN [value |-> <<>>, position |-> length.position]
       ELSE [value |-> IF Utf8Invalid(string_bytes)
                       THEN Latin1Decode(string_bytes)
                       ELSE Utf8Decode(string_bytes),
             position |-> length.position + length.value]

\* read_value_by_type with the tag 0x03 read as a double
ReadValueByTypeEager(data, pos, value_type) ==
    IF value_type \in {1, 3}
    THEN [value |-> FloatValue(ReadDouble(data, pos).value),
          position |-> ReadDouble(data, pos).position]
    ELSE IF value_type = 2
    THEN [value |-> StrValue(ReadString(data, pos).value),
          position |-> ReadString(data, pos).position]
    ELSE IF value_type = 4 THEN [value |-> BoolValue(TRUE), position |-> pos]
    ELSE IF value_type = 5 THEN [value |-> BoolValue(FALSE), position |-> pos]
    ELSE [value |-> NoneValue, position |-> pos]

\* read_value_by_type
ReadValueByType(data, pos, value_type) ==
    IF value_type = 0 THEN [value |-> NoneValue, position |-> pos]
    ELSE IF value_type = 1
    THEN [value |-> FloatValue(ReadDouble(data, pos).value),
          position |-> ReadDouble(data, pos).position]
    ELSE IF value_type = 2
    THEN [value |-> StrValue(ReadString(data, pos).value),
          position |-> ReadString(data, pos).position]
    ELSE IF value_type = 3 THEN [value |-> NoneValue, position |-> pos]
    ELSE IF value_type = 4 THEN [value |-> BoolValue(TRUE), position |-> pos]
    ELSE IF value_type = 5 THEN [value |-> BoolValue(FALSE), position |-> pos]
    ELSE [value |-> NoneValue, position |-> pos]

\* ord() of an ASCII letter
AsciiLower ==
    <<"a", "b", "c", "d", "e", "f", "g", "h", "i", "j", "k", "l", "m",
      "n", "o", "p", "q", "r", "s", "t", "u", "v", "w", "x", "y", "z">>

AsciiUpper ==
    <<"A", "B", "C", "D", "E", "F", "G", "H", "I", "J", "K", "L", "M",
      "N", "O", "P", "Q", "R", "S", "T", "U", "V", "W", "X", "Y", "Z">>

Ord(c) ==
    IF \E i \in 1..26 : AsciiLower[i] = c
    THEN 96 + (CHOOSE i \in 1..26 : AsciiLower[i] = c)
    ELSE 64 + (CHOOSE i \in 1..26 : AsciiUpper[i] = c)

\* str.encode("utf-8") of ASCII letters
Encode(chars) == [i \in 1..Len(chars) |-> Ord(chars[i])]

\* str.lower() left undone
LowerUnchanged(codes) == codes

\* str.lower() on ASCII code points
Lower(codes) ==
    [i \in 1..Len(codes) |->
        IF 65 <= codes[i] /\ codes[i] <= 90 THEN codes[i] + 32 ELSE codes[i]]

\* keyword in key
IsSubstring(sub, s) ==
    \E i \in 0..(Len(s) - Len(sub)) : SubSeq(s, i + 1, i + Len(sub)) = sub

keyword_targets ==
    {Encode(<<"t", "r", "a", "i", "t">>),
     Encode(<<"p", "r", "o", "f", "e", "s", "s", "i", "o", "n">>),
     Encode(<<"n", "a", "m", "e">>),
     Encode(<<"s", "u", "r", "n", "a", "m", "e">>),
     Encode(<<"f", "o", "r", "e", "n", "a", "m", "e">>),
     Encode(<<"h", "o", "u", "r">>),
     Encode(<<"z", "o", "m", "b", "i", "e">>),
     Encode(<<"k", "i", "l", "l">>),
     Encode(<<"s", "t", "r", "e", "n", "g", "t", "h">>),
     Encode(<<"f", "i", "t", "n", "e", "s", "s">>)}

\* any(keyword in key.lower() for keyword in keyword_targets)
IsInteresting(key) == \E keyword \in keyword_targets : IsSubstring(keyword, Lower(key))

\* character_info[key] = value
Put(info, key, value) ==
    [k \in DOMAIN info \cup {key} |-> IF k = key THEN value ELSE info[k]]

\* the condition of the loop of parse_character_data
ScanMargin == 10

Scanning(data, pos) == pos < Len(data) - ScanMargin

\* one iteration of the loop of parse_character_data: the position and
\* character_info afterwards
ParseIteration(data, pos, info) ==
    LET byte == ReadByte(data, pos)
        length == ReadShort(data, byte.position)
        string_bytes == SubSeq(data, length.position + 1,
                               length.position + length.value)
        after_key == length.position + length.value
        value_type == ReadByte(data, after_key)
        value == ReadValueByType(data, value_type.position, value_type.value)
    IN IF byte.value # 2 THEN [position |-> byte.position, info |-> info]
       ELSE IF ~(/\ 1 < length.value
                 /\ length.value < 200
                 /\ length.position + length.value <= Len(data))
       THEN [position |-> length.position, info |-> info]
       ELSE IF Utf8Invalid(string_bytes)
       THEN [position |-> after_key, info |-> info]
       ELSE [position |-> value.position,
             info |-> IF IsInteresting(Utf8Decode(string_bytes))
                      THEN Put(info, Utf8Decode(string_bytes), value.value)
                      ELSE info]

(***************************************************************************)
(* player_parser.py: get_player_info, and get_save_stats of backend.py on  *)
(* top of it.  players.db is a record:                                     *)
(*   exists        does <save>/players.db exist                            *)
(*   connect       "ok", or "error" when the file cannot be opened or read *)
(*                 as a database                                           *)
(*   localPlayers  "missing" (no such table), "empty", or "row"            *)
(*   name, data    the columns of the first row of localPlayers            *)
(*   survivors     "missing", "empty" or "row"                             *)
(*   hours, zombiekills   the columns of the first row of survivors        *)
(* A column is a tagged value, NULL being None.  The outcome of a call is  *)
(* the value returned and the name of the exception raised, "" for none.   *)
(***************************************************************************)
BytesValue(bytes) == [t |-> "bytes", v |-> bytes]

ListValue(items) == [t |-> "list", v |-> items]

DictValue(fields) == [t |-> "dict", v |-> fields]

Returned(value) == [value |-> value, err |-> ""]

Raised(err) == [value |-> NoneValue, err |-> err]

\* bool(value)
Truthy(value) ==
    IF value.t = "None" THEN FALSE
    ELSE IF value.t = "bool" THEN value.v
    ELSE IF value.t = "int" THEN value.v # 0
    ELSE IF value.t = "float" THEN value.v # ZeroDouble
    ELSE value.v # <<>>

\* x if x else 0 with the null left as it is
OrZeroKeepNull(value) == IF value.t = "int" /\ value.v = 0 THEN IntValue(0) ELSE value

\* x if x else 0, x or 0
OrZero(value) == IF Truthy(value) THEN value ELSE IntValue(0)

\* parse_character_data as one call: the dict and its keys in insertion order
RECURSIVE ParseCharacterData(_, _, _, _)
ParseCharacterData(data, pos, info, keys) ==
    IF ~Scanning(data, pos) THEN [info |-> info, keys |-> keys]
    ELSE LET step == ParseIteration(data, pos, info)
             new == DOMAIN step.info \ DOMAIN info
         IN ParseCharacterData(data, step.position, step.info,
                               IF new = {} THEN keys
                               ELSE Append(keys, CHOOSE k \in new : TRUE))

\* the traits loop of get_player_info
Traits(parsed) ==
    LET kept == SelectSeq(parsed.keys,
                          LAMBDA key : /\ IsSubstring(<<116, 114, 97, 105, 116>>, Lower(key))
                                       /\ Truthy(parsed.info[key]))
    IN [i \in 1..Len(kept) |-> parsed.info[kept[i]]]

\* the dict returned for a row of localPlayers
PlayerRecord(d) ==
    LET parsed == ParseCharacterData(d.data.v, 0, <<>>, <<>>)
        found == d.survivors = "row"
    IN DictValue([character_name |-> d.name,
                  hours_survived |-> IF found THEN OrZero(d.hours) ELSE IntValue(0),
                  zombies_killed |-> IF found THEN OrZero(d.zombiekills) ELSE IntValue(0),
                  traits |-> ListValue(Traits(parsed)),
                  extra_data |-> DictValue(parsed.info)])

\* the dict returned from the survivors table alone
SurvivorRecord(d) ==
    DictValue([character_name |-> StrValue(Encode(<<"U", "n", "k", "n", "o", "w", "n">>)),
               hours_survived |-> OrZero(d.hours),
               zombies_killed |-> OrZero(d.zombiekills),
               traits |-> ListValue(<<>>)])

\* the body of the try of get_player_info
PlayerInfoTry(d) ==
    IF d.connect # "ok" THEN Raised("OperationalError")
    ELSE IF d.localPlayers = "missing" THEN Raised("OperationalError")
    ELSE IF d.localPlayers = "row"
    THEN (IF d.data.t # "bytes" THEN Raised("TypeError")
          ELSE Returned(PlayerRecord(d)))
    ELSE IF d.survivors = "missing" THEN Raised("OperationalError")
    ELSE IF d.survivors = "row" THEN Returned(SurvivorRecord(d))
    ELSE Returned(NoneValue)

\* get_player_info without its except clause
Uncaught(outcome) == outcome

\* except Exception: return None
Caught(outcome) == IF outcome.err # "" THEN Returned(NoneValue) ELSE outcome

GetPlayerInfo(d) ==
    IF ~d.exists THEN Returned(NoneValue) ELSE Caught(PlayerInfoTry(d))

\* the dicts of get_save_stats
Stats(character_name, hours, zombies, traits) ==
    DictValue([character_name |-> character_name, hours |-> hours,
               zombies |-> zombies, traits |-> traits])

StatsError(err) ==
    DictValue([character_name |-> StrValue(Encode(<<"U", "n", "k", "n", "o", "w", "n">>)),
               hours |-> IntValue(0), zombies |-> IntValue(0),
               traits |-> ListValue(<<>>), error |-> err])

UnknownStats(hours, zombies) ==
    Stats(StrValue(Encode(<<"U", "n", "k", "n", "o", "w", "n">>)), hours, zombies,
          ListValue(<<>>))

GetSaveStats(d) ==
    LET player_info == GetPlayerInfo(d)
    IN IF player_info.err # "" THEN player_info
       ELSE IF player_info.value.t = "dict"
       THEN Returned(Stats(player_info.value.v.character_name,
                           player_info.value.v.hours_survived,
                           player_info.value.v.zombies_killed,
                           player_info.value.v.traits))
       ELSE IF ~d.exists THEN Returned(UnknownStats(IntValue(0), IntValue(0)))
       ELSE IF d.connect # "ok" \/ d.survivors = "missing"
       THEN Returned(StatsError("OperationalError"))
       ELSE IF d.survivors = "row"
       THEN Returned(UnknownStats(OrZero(d.hours), OrZero(d.zombiekills)))
       ELSE Returned(UnknownStats(IntValue(0), IntValue(0)))

(***************************************************************************)
(* The state machine.                                                      *)
(*   clock         time.time(), in whole seconds                           *)
(*   saves         <save_root>/<game_mode>/<name>, for each save name      *)
(*   dirExists     does <backup_root>/<game_mode> exist                    *)
(*   backups       the entries of <backup_root>/<game_mode>                *)
(*   compress      settings.compress_folders                               *)
(*   keepLastN     settings.keep_last_n_saves                              *)
(*   quotas        settings.save_quotas_mb                                 *)
(*   defaultQuota  settings.default_save_quota_mb                          *)
(*   locked        the names of the entries of the backup directory that   *)
(*                 the operating system refuses to delete (open in another *)
(*                 process, permission denied)                             *)
(*   parser        a ZomboidBinaryParser: its data, its position, what its *)
(*                 last read returned                                      *)
(*   db            players.db of the save whose metadata is asked for      *)
(*   passes        the enforce_quota passes that run side by side, each    *)
(*                 with its locals and its place in the code               *)
(*   poller        the ZAS object of cli.py and its save_poller loop: its   *)
(*                 fields, settings.save_interval_sec, the place in the    *)
(*                 loop, the path printed by the latest back_up_saves, the *)
(*                 exception that ended the loop and the exit code         *)
(*   last          the call in progress or just made: its arguments, its   *)
(*                 result, its error; Idle once the caller has dropped it  *)
(***************************************************************************)
SaveNames == {<<"A">>, <<"x", "_", "A">>}

\* no parser is constructed, no players.db is looked at, no pass runs
NoParser ==
    [op |-> "none", data |-> <<>>, position |-> 0, tag |-> 0, out |-> NoneValue,
     info |-> <<>>, iterations |-> 0]

NoDb ==
    [exists |-> FALSE, connect |-> "ok", localPlayers |-> "missing",
     name |-> NoneValue, data |-> NoneValue, survivors |-> "missing",
     hours |-> NoneValue, zombiekills |-> NoneValue]

NoPasses == <<>>

NoPoller ==
    [pc |-> "new", next_save_time |-> 0, has_just_started |-> FALSE,
     save_interval_sec |-> 0, printed |-> <<>>, err |-> "", code |-> -1]

\* the name given to ZAS.archive_saves, the name of a file a user drops
SnapName == <<"s", "n", "a", "p">>

LooseName == <<"l", "o", "g">>

QuotaValues == {0, 1, 2}

KeepValues == {0, 1, 2}

\* last: op the operation, name its save name or filter, path the artifact it
\* is given or returns, target the restore target, num its number argument
\* (restore_backup: 1 when the target existed; backup_save and the retention
\* calls: 0 for a first call, 1 + the number of entries the call before
\* removed when the caller repeats the call it has just made), ret the list
\* it returns, err the exception it raises ("" for none)
Idle ==
    [op |-> "none", name |-> <<>>, path |-> <<>>, target |-> <<>>, num |-> 0,
     ret |-> <<>>, err |-> ""]

Call(op, name, path, target, num, ret, err) ==
    [op |-> op, name |-> name, path |-> path, target |-> target, num |-> num,
     ret |-> ret, err |-> err]

NamesOf(list) == [i \in 1..Len(list) |-> list[i].name]

\* the caller makes its first call, or makes the call op(name) once more
Ready(op, name) == last.op \in {"none", op} /\ last.name \in {<<>>, name}

Repeats(op, name) == IF last.op = op THEN 1 + Len(last.ret) ELSE 0

\* the caller drops the result of the call
Return ==
    /\ last # Idle
    /\ last' = Idle
    /\ UNCHANGED <<clock, saves, dirExists, backups, compress, keepLastN, quotas,
                   defaultQuota, poller, parser, db, passes, locked>>

\* a second passes, a caller of backup_save keeping what it got
Tick ==
    /\ last.op \in {"none", "backup_save"}
    /\ clock < MaxClock
    /\ clock' = clock + 1
    /\ UNCHANGED <<saves, dirExists, backups, compress, keepLastN, quotas,
                   defaultQuota, poller, parser, db, passes, locked, last>>

\* the game creates the save s, or rewrites its files in place
GameWrites(s, tree) ==
    /\ last = Idle
    /\ saves' = [saves EXCEPT ![s] =
                    SaveDir(tree, IF saves[s].exists THEN saves[s].mtime ELSE clock)]
    /\ UNCHANGED <<clock, dirExists, backups, compress, keepLastN, quotas,
                   defaultQuota, poller, parser, db, passes, locked, last>>

\* a user drops a file that is no backup into the backup directory
PlaceLooseFile ==
    /\ last = Idle
    /\ dirExists
    /\ Cardinality(backups) < MaxBackups
    /\ LooseName \notin Names(backups)
    /\ backups' = backups \cup {RawEntry(LooseName, DataSize.d2, clock)}
    /\ UNCHANGED <<clock, saves, dirExists, compress, keepLastN, quotas,
                   defaultQuota, poller, parser, db, passes, locked, last>>

\* another process opens an entry of the backup directory, or its
\* permissions change: the entry can no longer be deleted
LockEntry(name) ==
    /\ last = Idle
    /\ name \in Names(backups)
    /\ locked' = locked \cup {name}
    /\ UNCHANGED <<clock, saves, dirExists, backups, compress, keepLastN, quotas,
                   defaultQuota, poller, parser, db, passes, last>>

UpdateCompressFolders(enabled) ==
    /\ last = Idle
    /\ compress' = enabled
    /\ UNCHANGED <<clock, saves, dirExists, backups, keepLastN, quotas,
                   defaultQuota, poller, parser, db, passes, locked, last>>

UpdateKeepLastNSaves(count) ==
    /\ last = Idle
    /\ keepLastN' = count
    /\ UNCHANGED <<clock, saves, dirExists, backups, compress, quotas,
                   defaultQuota, poller, parser, db, passes, locked, last>>

UpdateSaveQuota(saveName, quotaMb) ==
    /\ last = Idle
    /\ quotas' = [n \in DOMAIN quotas \cup {saveName} |->
                     IF n = saveName THEN quotaMb ELSE quotas[n]]
    /\ last' = Call("update_save_quota", saveName, <<>>, <<>>, quotaMb, <<>>, "")
    /\ UNCHANGED <<clock, saves, dirExists, backups, compress, keepLastN,
                   defaultQuota, poller, parser, db, passes, locked>>

BackupSaveCall(saveName) ==
    LET r == BackupSave(saves, backups, compress, saveName, clock)
    IN /\ Ready("backup_save", saveName)
       /\ Cardinality(r.backups) <= MaxBackups
       /\ backups' = r.backups
       /\ dirExists' = (dirExists \/ saves[saveName].exists)
       /\ last' = Call("backup_save", saveName, r.ret, <<>>,
                       Repeats("backup_save", saveName), <<>>, r.err)
       /\ UNCHANGED <<clock, saves, compress, keepLastN, quotas, defaultQuota, poller, parser, db, passes, locked>>

GetBackupsCall(filter) ==
    \E order \in Listings(Appended(backups, filter)) :
        /\ last = Idle
        /\ last' = Call("get_backups", filter, <<>>, <<>>, 0,
                        NamesOf(GetBackups(dirExists, order)), "")
        /\ UNCHANGED <<clock, saves, dirExists, backups, compress, keepLastN,
                       quotas, defaultQuota, poller, parser, db, passes, locked>>

RestoreBackupCall(path, target) ==
    /\ last.op \in {"none", "backup_save"}
    /\ last.err = ""
    /\ saves' = [saves EXCEPT ![target] =
                    RestoreTarget(saves[target], backups, path, clock)]
    /\ last' = Call("restore_backup", <<>>, path, target,
                    IF saves[target].exists THEN 1 ELSE 0, <<>>,
                    RestoreError(backups, path))
    /\ UNCHANGED <<clock, dirExists, backups, compress, keepLastN, quotas,
                   defaultQuota, poller, parser, db, passes, locked>>

EnforceQuotaCall(saveName) ==
    \E order \in Listings(Appended(backups, saveName)) :
        LET removed == EnforceQuotaRemoved(quotas, defaultQuota,
                                           GetBackups(dirExists, order), saveName)
            err == RemovalError(removed, locked)
        IN /\ Ready("enforce_quota", saveName)
           /\ backups' = RemoveAll(backups, Gone(removed, locked))
           /\ locked' = locked \cap Names(backups')
           /\ last' = Call("enforce_quota", saveName, <<>>, <<>>,
                           Repeats("enforce_quota", saveName),
                           IF err = "" THEN NamesOf(removed) ELSE <<>>, err)
           /\ UNCHANGED <<clock, saves, dirExists, compress, keepLastN, quotas,
                          defaultQuota, poller, parser, db, passes>>

EnforceKeepLastCall(saveName) ==
    \E order \in Listings(Appended(backups, saveName)) :
        LET removed == EnforceKeepLastRemoved(keepLastN, GetBackups(dirExists, order))
            err == RemovalError(removed, locked)
        IN /\ Ready("enforce_keep_last", saveName)
           /\ backups' = RemoveAll(backups, Gone(removed, locked))
           /\ locked' = locked \cap Names(backups')
           /\ last' = Call("enforce_keep_last", saveName, <<>>, <<>>,
                           Repeats("enforce_keep_last", saveName),
                           IF err = "" THEN NamesOf(removed) ELSE <<>>, err)
           /\ UNCHANGED <<clock, saves, dirExists, compress, keepLastN, quotas,
                          defaultQuota, poller, parser, db, passes>>

GetSaveDiskUsageCall(saveName) ==
    \E order \in Listings(Appended(backups, saveName)) :
        /\ last = Idle
        /\ last' = Call("get_save_disk_usage", saveName, <<>>, <<>>, 0,
                        GetSaveDiskUsage(saves[saveName], GetBackups(dirExists, order)),
                        "")
        /\ UNCHANGED <<clock, saves, dirExists, backups, compress, keepLastN,
                       quotas, defaultQuota, poller, parser, db, passes, locked>>

(***************************************************************************)
(* The parser.  The buffers are built the way the tests build theirs: a    *)
(* marker 0x02, the length of the key on two bytes, the key, the type tag, *)
(* the value; entries follow each other, zero bytes pad the end.           *)
(***************************************************************************)
Short(n) == <<n \div 256, n % 256>>

Entry(key, value_type, payload) == <<2>> \o Short(Len(key)) \o key \o <<value_type>> \o payload

Pad(n) == [i \in 1..n |-> 0]

Entries ==
    {Entry(Encode(<<"n", "a", "m", "e">>), 2, Short(2) \o Encode(<<"A", "l">>)),
     Entry(Encode(<<"n", "a", "m", "e">>), 5, <<>>),
     Entry(Encode(<<"K", "i", "l", "l">>), 2, Short(0)),
     Entry(Encode(<<"x", "p">>), 4, <<>>),
     Entry(<<255, 110>>, 1, <<>>)}

RECURSIVE EntrySeqs(_)
EntrySeqs(n) ==
    IF n = 0 THEN {<<>>}
    ELSE EntrySeqs(n - 1) \cup {b \o e : b \in EntrySeqs(n - 1), e \in Entries}

Buffers ==
    {<<0>>, <<0, 5, 97, 98, 99>>,
     <<2>> \o Entry(Encode(<<"n", "a", "m", "e">>), 5, <<>>) \o Pad(ScanMargin + 1)}
        \cup {b \o Pad(n) : b \in EntrySeqs(MaxEntries), n \in {0, 1, ScanMargin + 1}}

ValueTypes == {0, 1, 2, 3, 4, 5, 255}

\* the parser is constructed and is not inside parse_character_data
ParserReady == parser.op \notin {"none", "scan"}

ReadByteCall ==
    LET r == ReadByte(parser.data, parser.position)
    IN /\ ParserReady
       /\ parser' = [parser EXCEPT !.op = "read_byte", !.out = IntValue(r.value),
                                   !.position = r.position, !.tag = 0]
       /\ UNCHANGED <<clock, saves, dirExists, backups, compress, keepLastN,
                      quotas, defaultQuota, poller, locked, db, passes, last>>

ReadShortCall ==
    LET r == ReadShort(parser.data, parser.position)
    IN /\ ParserReady
       /\ parser' = [parser EXCEPT !.op = "read_short", !.out = IntValue(r.value),
                                   !.position = r.position, !.tag = 0]
       /\ UNCHANGED <<clock, saves, dirExists, backups, compress, keepLastN,
                      quotas, defaultQuota, poller, locked, db, passes, last>>

\* the value of the four bytes is kept below 2^31
ReadIntCall ==
    LET r == ReadInt(parser.data, parser.position)
    IN /\ ParserReady
       /\ parser.position + 4 <= Len(parser.data)
            => parser.data[parser.position + 1] < 128
       /\ parser' = [parser EXCEPT !.op = "read_int", !.out = IntValue(r.value),
                                   !.position = r.position, !.tag = 0]
       /\ UNCHANGED <<clock, saves, dirExists, backups, compress, keepLastN,
                      quotas, defaultQuota, poller, locked, db, passes, last>>

ReadDoubleCall ==
    LET r == ReadDouble(parser.data, parser.position)
    IN /\ ParserReady
       /\ parser' = [parser EXCEPT !.op = "read_double", !.out = FloatValue(r.value),
                                   !.position = r.position, !.tag = 0]
       /\ UNCHANGED <<clock, saves, dirExists, backups, compress, keepLastN,
                      quotas, defaultQuota, poller, locked, db, passes, last>>

ReadStringCall ==
    LET r == ReadString(parser.data, parser.position)
    IN /\ ParserReady
       /\ parser' = [parser EXCEPT !.op = "read_string", !.out = StrValue(r.value),
                                   !.position = r.position, !.tag = 0]
       /\ UNCHANGED <<clock, saves, dirExists, backups, compress, keepLastN,
                      quotas, defaultQuota, poller, locked, db, passes, last>>

ReadValueByTypeCall(value_type) ==
    LET r == ReadValueByType(parser.data, parser.position, value_type)
    IN /\ ParserReady
       /\ parser' = [parser EXCEPT !.op = "read_value_by_type", !.out = r.value,
                                   !.position = r.position, !.tag = value_type]
       /\ UNCHANGED <<clock, saves, dirExists, backups, compress, keepLastN,
                      quotas, defaultQuota, poller, locked, db, passes, last>>

\* parse_character_data is entered
ParseStart ==
    /\ ParserReady
    /\ parser' = [parser EXCEPT !.op = "scan", !.position = 0, !.info = <<>>,
                                !.out = NoneValue, !.tag = 0, !.iterations = 0]
    /\ UNCHANGED <<clock, saves, dirExists, backups, compress, keepLastN, quotas,
                   defaultQuota, poller, locked, db, passes, last>>

\* one iteration of its loop
ParseStep ==
    LET r == ParseIteration(parser.data, parser.position, parser.info)
    IN /\ parser.op = "scan"
       /\ Scanning(parser.data, parser.position)
       /\ parser' = [parser EXCEPT !.position = r.position, !.info = r.info,
                                   !.iterations = @ + 1]
       /\ UNCHANGED <<clock, saves, dirExists, backups, compress, keepLastN,
                      quotas, defaultQuota, poller, locked, db, passes, last>>

\* the loop ends, character_info is returned
ParseReturn ==
    /\ parser.op = "scan"
    /\ ~Scanning(parser.data, parser.position)
    /\ parser' = [parser EXCEPT !.op = "parse_character_data",
                                !.out = [t |-> "dict", v |-> parser.info],
                                !.info = <<>>, !.iterations = 0]
    /\ UNCHANGED <<clock, saves, dirExists, backups, compress, keepLastN, quotas,
                   defaultQuota, poller, locked, db, passes, last>>

\* ZAS.archive_saves(path_to_backup, target_save_path), base being the last
\* component of path_to_backup
ArchiveSavesCall(base, saveName) ==
    LET art == Artifact(compress, base, saves[saveName], clock)
    IN /\ last = Idle
       /\ saves[saveName].exists
       /\ ArchiveError(backups, compress, base) = ""
       /\ Cardinality(WithArtifact(backups, art)) <= MaxBackups
       /\ backups' = WithArtifact(backups, art)
       /\ dirExists' = TRUE
       /\ last' = Call("archive_saves", saveName, art.name, <<>>, 0, <<>>, "")
       /\ UNCHANGED <<clock, saves, compress, keepLastN, quotas, defaultQuota, poller, parser, db, passes, locked>>

\* ZAS.back_up_saves() with save_to_backup = saveName: the archive, then
\* keep_last_n_saves(settings.keep_last_n_saves)
BackUpSavesCall(saveName) ==
    LET r == BackupSave(saves, backups, compress, saveName, clock)
        made == (dirExists \/ saves[saveName].exists)
    IN /\ last = Idle
       /\ Cardinality(r.backups) <= MaxBackups
       /\ \E order \in Listings(r.backups) :
            LET removed == IF r.err # "" THEN <<>>
                           ELSE KeepLastNSavesRemoved(keepLastN, made, order)
            IN /\ backups' = RemoveAll(r.backups, removed)
               /\ last' = Call("back_up_saves", saveName, r.ret, <<>>, 0,
                               NamesOf(removed), r.err)
       /\ dirExists' = made
       /\ UNCHANGED <<clock, saves, compress, keepLastN, quotas, defaultQuota, poller, parser, db, passes, locked>>

(***************************************************************************)
(* Spec: the catalog with everything the backup directory can hold: the    *)
(* artifacts of backup_save and of ZAS.back_up_saves, what archive_saves   *)
(* writes under another name, files of the user.  The saves exist and do   *)
(* not change; the quotas are the defaults.                                *)
(***************************************************************************)
FixedSaves ==
    [s \in SaveNames |->
        IF s = <<"A">> THEN SaveDir(TreeSmall, 0) ELSE SaveDir(TreeBig, 0)]

Init ==
    /\ clock = 0
    /\ saves = FixedSaves
    /\ dirExists = TRUE
    /\ backups = {}
    /\ compress = TRUE
    /\ keepLastN = 2
    /\ quotas = <<>>
    /\ defaultQuota = 1
    /\ locked = {}
    /\ parser = NoParser
    /\ db = NoDb
    /\ passes = NoPasses
    /\ poller = NoPoller
    /\ last = Idle

Next ==
    \/ Return
    \/ Tick
    \/ PlaceLooseFile
    \/ \E b \in BOOLEAN : UpdateCompressFolders(b)
    \/ \E n \in KeepValues : UpdateKeepLastNSaves(n)
    \/ \E s \in SaveNames : BackupSaveCall(s)
    \/ ArchiveSavesCall(SnapName, <<"A">>)
    \/ \E f \in SaveNames \cup {<<>>} : GetBackupsCall(f)
    \/ \E s \in SaveNames : GetSaveDiskUsageCall(s)
    \/ \E s \in SaveNames : EnforceKeepLastCall(s)
    \/ \E s \in SaveNames : EnforceQuotaCall(s)
    \/ \E s \in SaveNames : BackUpSavesCall(s)

Spec == Init /\ [][Next]_vars

(***************************************************************************)
(* SpecQuota: the quota policy over the artifacts of backup_save.  The     *)
(* saves exist and do not change; the keep-last count is not used.         *)
(***************************************************************************)
InitQuota ==
    /\ clock = 0
    /\ saves = FixedSaves
    /\ dirExists = TRUE
    /\ backups = {}
    /\ compress = TRUE
    /\ keepLastN = 2
    /\ quotas = <<>>
    /\ defaultQuota \in {0, 1}
    /\ locked = {}
    /\ parser = NoParser
    /\ db = NoDb
    /\ passes = NoPasses
    /\ poller = NoPoller
    /\ last = Idle

NextQuota ==
    \/ Return
    \/ Tick
    \/ \E b \in BOOLEAN : UpdateCompressFolders(b)
    \/ \E s \in SaveNames, q \in QuotaValues : UpdateSaveQuota(s, q)
    \/ \E s \in SaveNames : BackupSaveCall(s)
    \/ \E s \in SaveNames : EnforceQuotaCall(s)

SpecQuota == InitQuota /\ [][NextQuota]_vars

(***************************************************************************)
(* SpecKeepLast: the keep-last policy over the artifacts of backup_save.   *)
(* The saves exist and do not change; the quotas are not used.             *)
(***************************************************************************)
NextKeepLast ==
    \/ Return
    \/ Tick
    \/ \E b \in BOOLEAN : UpdateCompressFolders(b)
    \/ \E n \in KeepValues : UpdateKeepLastNSaves(n)
    \/ \E s \in SaveNames : BackupSaveCall(s)
    \/ \E s \in SaveNames : EnforceKeepLastCall(s)

SpecKeepLast == Init /\ [][NextKeepLast]_vars

(***************************************************************************)
(* SpecLocked: the retention calls over artifacts of backup_save some of   *)
(* which cannot be deleted.                                                *)
(***************************************************************************)
NextLocked ==
    \/ Return
    \/ Tick
    \/ \E b \in BOOLEAN : UpdateCompressFolders(b)
    \/ \E n \in KeepValues : UpdateKeepLastNSaves(n)
    \/ \E n \in Names(backups) : LockEntry(n)
    \/ BackupSaveCall(<<"A">>)
    \/ EnforceKeepLastCall(<<"A">>)
    \/ EnforceQuotaCall(<<"A">>)

SpecLocked == Init /\ [][NextLocked]_vars

(***************************************************************************)
(* SpecParser: a ZomboidBinaryParser over a buffer, its reads in any order *)
(* and parse_character_data.                                               *)
(***************************************************************************)
InitParser ==
    /\ clock = 0
    /\ saves = FixedSaves
    /\ dirExists = TRUE
    /\ backups = {}
    /\ compress = TRUE
    /\ keepLastN = 2
    /\ quotas = <<>>
    /\ defaultQuota = 1
    /\ locked = {}
    /\ parser \in {[NoParser EXCEPT !.op = "__init__", !.data = b] : b \in Buffers}
    /\ db = NoDb
    /\ passes = NoPasses
    /\ poller = NoPoller
    /\ last = Idle

NextParser ==
    \/ ReadByteCall
    \/ ReadShortCall
    \/ ReadIntCall
    \/ ReadDoubleCall
    \/ ReadStringCall
    \/ \E t \in ValueTypes : ReadValueByTypeCall(t)
    \/ ParseStart
    \/ ParseStep
    \/ ParseReturn

SpecParser == InitParser /\ [][NextParser]_vars

\* parse_character_data runs on one thread: an iteration that can be taken is
\* taken, and the return follows the last one
SpecParserFair == SpecParser /\ WF_vars(ParseStep) /\ WF_vars(ParseReturn)

(***************************************************************************)
(* SpecMeta: the metadata of the save A.  players.db is written by the     *)
(* game and only read here: it starts in any of the shapes below and the   *)
(* two readers are called in any order.                                    *)
(***************************************************************************)
PlayerBlobs ==
    {<<>>,
     Entry(Encode(<<"t", "r", "a", "i", "t">>), 2, Short(2) \o Encode(<<"A", "l">>))
        \o Entry(Encode(<<"T", "r", "a", "i", "t">>), 4, <<>>)
        \o Entry(Encode(<<"t", "r", "a", "i", "t", "s">>), 5, <<>>)
        \o Pad(ScanMargin + 1)}

PlayerRows ==
    {[name |-> n, data |-> b] :
        n \in {StrValue(Encode(<<"A", "l">>)), NoneValue},
        b \in {BytesValue(blob) : blob \in PlayerBlobs} \cup {NoneValue}}

SurvivorRows ==
    {[hours |-> h, zombiekills |-> z] :
        h \in {NoneValue, IntValue(0), IntValue(9)},
        z \in {NoneValue, IntValue(12)}}

DbStates ==
    {NoDb, [NoDb EXCEPT !.exists = TRUE, !.connect = "error"]}
        \cup {[exists |-> TRUE, connect |-> "ok", localPlayers |-> lp,
               name |-> IF lp = "row" THEN p.name ELSE NoneValue,
               data |-> IF lp = "row" THEN p.data ELSE NoneValue,
               survivors |-> sv,
               hours |-> IF sv = "row" THEN r.hours ELSE NoneValue,
               zombiekills |-> IF sv = "row" THEN r.zombiekills ELSE NoneValue] :
                  lp \in {"missing", "empty", "row"}, p \in PlayerRows,
                  sv \in {"missing", "empty", "row"}, r \in SurvivorRows}

GetPlayerInfoCall(saveName) ==
    /\ last.op = "none"
    /\ last' = Call("get_player_info", saveName, <<>>, <<>>, 0,
                    GetPlayerInfo(db).value, GetPlayerInfo(db).err)
    /\ UNCHANGED <<clock, saves, dirExists, backups, compress, keepLastN,
                   quotas, defaultQuota, poller, parser, db, passes, locked>>

GetSaveStatsCall(saveName) ==
    /\ last.op = "none"
    /\ last' = Call("get_save_stats", saveName, <<>>, <<>>, 0,
                    GetSaveStats(db).value, GetSaveStats(db).err)
    /\ UNCHANGED <<clock, saves, dirExists, backups, compress, keepLastN,
                   quotas, defaultQuota, poller, parser, db, passes, locked>>

InitMeta ==
    /\ clock = 0
    /\ saves = FixedSaves
    /\ dirExists = TRUE
    /\ backups = {}
    /\ compress = TRUE
    /\ keepLastN = 2
    /\ quotas = <<>>
    /\ defaultQuota = 1
    /\ locked = {}
    /\ parser = NoParser
    /\ db \in DbStates
    /\ passes = NoPasses
    /\ poller = NoPoller
    /\ last = Idle

NextMeta ==
    \/ Return
    \/ GetPlayerInfoCall(<<"A">>)
    \/ GetSaveStatsCall(<<"A">>)

SpecMeta == InitMeta /\ [][NextMeta]_vars

(***************************************************************************)
(* SpecRace: two processes run enforce_quota("A") once each over the same  *)
(* backup directory, their statements interleaved in any order.  The       *)
(* directory holds MaxBackups zip archives of backup_save, one per second.  *)
(***************************************************************************)
Procs == {1, 2}

RaceCatalog ==
    {Artifact(TRUE, ZipName(t, <<"A">>), SaveDir(TreeSmall, 0), t) :
        t \in 0..(MaxBackups - 1)}

Done(pass, err) == [pass EXCEPT !.pc = "done", !.err = err]

\* quota_mb = ...; backups = self.get_backups(...): the loop over iterdir()
PassList(p, saveName) ==
    LET quotaMb == ResolveSaveQuota(quotas, defaultQuota, saveName)
    IN /\ passes[p].pc = "idle"
       /\ IF quotaMb <= 0 \/ ~dirExists
          THEN passes' = [passes EXCEPT ![p] = Done(@, "")]
          ELSE \E order \in Listings(Appended(backups, saveName)) :
                  passes' = [passes EXCEPT ![p] =
                                [@ EXCEPT !.pc = "sort", !.backups = order,
                                          !.quota_bytes = quotaMb * BytesPerMB]]
       /\ UNCHANGED <<clock, saves, dirExists, backups, compress, keepLastN,
                      quotas, defaultQuota, poller, parser, db, locked, last>>

\* get_backups: backups.sort(key=stat().st_mtime); if not backups: return []
PassSort(p) ==
    /\ passes[p].pc = "sort"
    /\ passes' = [passes EXCEPT ![p] =
          IF StatRaises(backups, passes[p].backups) THEN Done(@, "FileNotFoundError")
          ELSE IF passes[p].backups = <<>> THEN Done(@, "")
          ELSE [@ EXCEPT !.pc = "sum", !.backups = SortDesc(@), !.idx = 1]]
    /\ UNCHANGED <<clock, saves, dirExists, backups, compress, keepLastN,
                   quotas, defaultQuota, poller, parser, db, locked, last>>

\* total_bytes = sum(...), one _get_backup_size at a time, and the test that
\* follows the last
PassSum(p) ==
    LET pass == passes[p]
        total == pass.total_bytes + SizeNow(backups, pass.backups[pass.idx])
    IN /\ pass.pc = "sum"
       /\ passes' = [passes EXCEPT ![p] =
             IF pass.idx < Len(pass.backups)
             THEN [@ EXCEPT !.total_bytes = total, !.idx = pass.idx + 1]
             ELSE IF QuotaMet(total, pass.quota_bytes)
             THEN Done([@ EXCEPT !.total_bytes = total], "")
             ELSE [@ EXCEPT !.total_bytes = total, !.pc = "order"]]
       /\ UNCHANGED <<clock, saves, dirExists, backups, compress, keepLastN,
                      quotas, defaultQuota, poller, parser, db, locked, last>>

\* sorted(backups, key=stat().st_mtime)
PassOrder(p) ==
    /\ passes[p].pc = "order"
    /\ passes' = [passes EXCEPT ![p] =
          IF StatRaises(backups, passes[p].backups) THEN Done(@, "FileNotFoundError")
          ELSE [@ EXCEPT !.pc = "size", !.ordered = SortAsc(passes[p].backups)]]
    /\ UNCHANGED <<clock, saves, dirExists, backups, compress, keepLastN,
                   quotas, defaultQuota, poller, parser, db, locked, last>>

\* backup_size = self._get_backup_size(backup)
PassSize(p) ==
    /\ passes[p].pc = "size"
    /\ passes' = [passes EXCEPT ![p] =
          [@ EXCEPT !.pc = "remove",
                    !.backup_size = SizeNow(backups, Head(passes[p].ordered))]]
    /\ UNCHANGED <<clock, saves, dirExists, backups, compress, keepLastN,
                   quotas, defaultQuota, poller, parser, db, locked, last>>

\* self._remove_backup(backup); removed.append(...); total_bytes -= ...;
\* if total_bytes <= quota_bytes: break
PassRemove(p) ==
    LET pass == passes[p]
        backup == Head(pass.ordered)
        total == pass.total_bytes - pass.backup_size
    IN /\ pass.pc = "remove"
       /\ IF Present(backups, backup) /\ RemoveRaises(backup, locked)
          THEN /\ passes' = [passes EXCEPT ![p] = Done(@, "PermissionError")]
               /\ UNCHANGED <<backups, locked>>
          ELSE /\ backups' = {e \in backups : e.name # backup.name}
               /\ locked' = locked \cap Names(backups')
               /\ passes' = [passes EXCEPT ![p] =
                     IF QuotaMet(total, pass.quota_bytes) \/ Tail(pass.ordered) = <<>>
                     THEN Done([@ EXCEPT !.total_bytes = total,
                                         !.removed = Append(@, backup.name)], "")
                     ELSE [@ EXCEPT !.pc = "size", !.total_bytes = total,
                                    !.ordered = Tail(@),
                                    !.removed = Append(@, backup.name)]]
       /\ UNCHANGED <<clock, saves, dirExists, compress, keepLastN,
                      quotas, defaultQuota, poller, parser, db, last>>

InitRace ==
    /\ clock = MaxBackups
    /\ saves = FixedSaves
    /\ dirExists = TRUE
    /\ backups = RaceCatalog
    /\ compress = TRUE
    /\ keepLastN = 2
    /\ quotas = <<>>
    /\ defaultQuota \in 0..MaxBackups
    /\ locked = {}
    /\ parser = NoParser
    /\ db = NoDb
    /\ passes = [p \in Procs |-> IdlePass]
    /\ poller = NoPoller
    /\ last = Idle

NextRace ==
    \/ \E p \in Procs : PassList(p, <<"A">>)
    \/ \E p \in Procs : PassSort(p)
    \/ \E p \in Procs : PassSum(p)
    \/ \E p \in Procs : PassOrder(p)
    \/ \E p \in Procs : PassSize(p)
    \/ \E p \in Procs : PassRemove(p)

SpecRace == InitRace /\ [][NextRace]_vars

(***************************************************************************)
(* SpecPoller: the command-line poller over the save A.  The clock moves   *)
(* in time.sleep(10) and, in the first second, between the statements of   *)
(* the loop; Ctrl-C can arrive at any statement; the archive step can fail *)
(* with ValueError (zipfile refuses a file dated before 1980, and the      *)
(* tests inject it).                                                       *)
(***************************************************************************)
Intervals == {0, SleepSec, SleepSec + 5, 3 * SleepSec}

\* ZAS.__init__
ZasInit(interval) ==
    /\ poller.pc = "new"
    /\ poller' = [poller EXCEPT !.pc = "test", !.save_interval_sec = interval,
                                !.next_save_time = clock + interval,
                                !.has_just_started = TRUE]
    /\ UNCHANGED <<clock, saves, dirExists, backups, compress, keepLastN,
                   quotas, defaultQuota, locked, parser, db, passes, last>>

\* the exception err ends the loop
Exits(err) == [poller EXCEPT !.pc = "exit", !.err = err, !.code = ExitCode(err)]

\* if ...: self.has_just_started = False; self.back_up_saves()
PollTest(saveName) ==
    LET r == BackupSave(saves, backups, compress, saveName, clock)
        made == (dirExists \/ saves[saveName].exists)
    IN /\ poller.pc = "test"
       /\ IF ~Due(clock, poller.next_save_time, poller.has_just_started)
          THEN /\ poller' = [poller EXCEPT !.pc = "sleep"]
               /\ UNCHANGED <<backups, dirExists>>
          ELSE \/ /\ poller' = [Exits("ValueError") EXCEPT !.has_just_started = FALSE]
                  /\ UNCHANGED <<backups, dirExists>>
               \/ /\ dirExists' = made
                  /\ IF r.err # ""
                     THEN /\ poller' = [Exits(r.err) EXCEPT !.has_just_started = FALSE]
                          /\ backups' = r.backups
                     ELSE /\ \E order \in Listings(r.backups) :
                               backups' = RemoveAll(r.backups,
                                              KeepLastNSavesRemoved(keepLastN, made, order))
                          /\ poller' = [poller EXCEPT !.pc = "schedule",
                                                      !.printed = r.ret,
                                                      !.has_just_started = FALSE]
       /\ UNCHANGED <<clock, saves, compress, keepLastN, quotas, defaultQuota,
                      locked, parser, db, passes, last>>

\* self.next_save_time = time.time() + settings.save_interval_sec
PollSchedule ==
    /\ poller.pc = "schedule"
    /\ poller' = [poller EXCEPT !.pc = "sleep",
                                !.next_save_time = clock + poller.save_interval_sec]
    /\ UNCHANGED <<clock, saves, dirExists, backups, compress, keepLastN,
                   quotas, defaultQuota, locked, parser, db, passes, last>>

\* time.sleep(10)
PollSleep ==
    /\ poller.pc = "sleep"
    /\ clock + SleepSec <= MaxClock + MaxSleeps * SleepSec
    /\ clock' = clock + SleepSec
    /\ poller' = [poller EXCEPT !.pc = "test"]
    /\ UNCHANGED <<saves, dirExists, backups, compress, keepLastN,
                   quotas, defaultQuota, locked, parser, db, passes, last>>

\* Ctrl-C while the loop runs
KeyboardInterrupt ==
    /\ poller.pc \in {"test", "schedule", "sleep"}
    /\ poller' = Exits("KeyboardInterrupt")
    /\ UNCHANGED <<clock, saves, dirExists, backups, compress, keepLastN,
                   quotas, defaultQuota, locked, parser, db, passes, last>>

InitPoller ==
    /\ clock = 0
    /\ saves = FixedSaves
    /\ dirExists \in BOOLEAN
    /\ backups = {}
    /\ compress \in BOOLEAN
    /\ keepLastN \in {0, 1, 2}
    /\ quotas = <<>>
    /\ defaultQuota = 1
    /\ locked = {}
    /\ parser = NoParser
    /\ db = NoDb
    /\ passes = NoPasses
    /\ poller = NoPoller
    /\ last = Idle

NextPoller ==
    \/ \E interval \in Intervals : ZasInit(interval)
    \/ Tick
    \/ PollTest(<<"A">>)
    \/ PollSchedule
    \/ PollSleep
    \/ KeyboardInterrupt

SpecPoller == InitPoller /\ [][NextPoller]_vars

(***************************************************************************)
(* SpecBackup: the Backup button of the window for the save A, over        *)
(* entries some of which cannot be deleted.                                *)
(***************************************************************************)
\* perform_backup with save_name selected: backup_save, enforce_quota,
\* enforce_keep_last, the list reported; an exception of any of the three
\* ends it in the "Backup failed" box
PerformBackup(saveName) ==
    LET made == BackupSave(saves, backups, compress, saveName, clock)
        exists == dirExists \/ saves[saveName].exists
    IN /\ last = Idle
       /\ Cardinality(made.backups) <= MaxBackups
       /\ dirExists' = exists
       /\ \E first \in Listings(Appended(made.backups, saveName)) :
            LET removed_quota == EnforceQuotaRemoved(quotas, defaultQuota,
                                                     GetBackups(exists, first), saveName)
                afterQuota == RemoveAll(made.backups, Gone(removed_quota, locked))
            IN \E second \in Listings(Appended(afterQuota, saveName)) :
                 LET removed_keep_last ==
                         EnforceKeepLastRemoved(keepLastN, GetBackups(exists, second))
                     afterKeepLast ==
                         RemoveAll(afterQuota, Gone(removed_keep_last, locked))
                 IN IF made.err # ""
                    THEN /\ backups' = made.backups
                         /\ last' = Call("perform_backup", saveName, <<>>, <<>>, 0,
                                         <<>>, made.err)
                    ELSE IF RemovalError(removed_quota, locked) # ""
                    THEN /\ backups' = afterQuota
                         /\ last' = Call("perform_backup", saveName, made.ret, <<>>, 0,
                                         <<>>, RemovalError(removed_quota, locked))
                    ELSE IF RemovalError(removed_keep_last, locked) # ""
                    THEN /\ backups' = afterKeepLast
                         /\ last' = Call("perform_backup", saveName, made.ret, <<>>, 0,
                                         <<>>, RemovalError(removed_keep_last, locked))
                    ELSE /\ backups' = afterKeepLast
                         /\ last' = Call("perform_backup", saveName, made.ret, <<>>, 0,
                                         Deduplicated(NamesOf(removed_quota)
                                                        \o NamesOf(removed_keep_last)),
                                         "")
       /\ locked' = locked \cap Names(backups')
       /\ UNCHANGED <<clock, saves, compress, keepLastN, quotas, defaultQuota,
                      poller, parser, db, passes>>

NextBackup ==
    \/ Return
    \/ Tick
    \/ \E b \in BOOLEAN : UpdateCompressFolders(b)
    \/ \E n \in KeepValues : UpdateKeepLastNSaves(n)
    \/ \E n \in Names(backups) : LockEntry(n)
    \/ \E s \in SaveNames : PerformBackup(s)

SpecBackup == Init /\ [][NextBackup]_vars

(***************************************************************************)
(* SpecArchive: backup and restore.  The game writes the save A; a restore *)
(* targets the other save; the retention settings are not used.            *)
(***************************************************************************)
ArtifactPaths ==
    Names(backups) \cup {ZipName(0, <<"A">>), ZipName(0, <<"A">>) \o ZipSuffix}

InitArchive ==
    /\ clock = 0
    /\ saves = [s \in SaveNames |-> NoSave]
    /\ dirExists \in BOOLEAN
    /\ backups = {}
    /\ compress = TRUE
    /\ keepLastN = 2
    /\ quotas = <<>>
    /\ defaultQuota = 1
    /\ locked = {}
    /\ parser = NoParser
    /\ db = NoDb
    /\ passes = NoPasses
    /\ poller = NoPoller
    /\ last = Idle

NextArchive ==
    \/ Return
    \/ Tick
    \/ PlaceLooseFile
    \/ \E t \in Trees : GameWrites(<<"A">>, t)
    \/ \E b \in BOOLEAN : UpdateCompressFolders(b)
    \/ BackupSaveCall(<<"A">>)
    \/ \E f \in {<<>>, <<"A">>} : GetBackupsCall(f)
    \/ \E p \in ArtifactPaths : RestoreBackupCall(p, <<"x", "_", "A">>)

SpecArchive == InitArchive /\ [][NextArchive]_vars

(***************************************************************************)
(* The two eviction policies side by side: every quota and every           *)
(* keep_last_n_saves of the settings, backups of both saves, either policy *)
(* called in any order.                                                    *)
(***************************************************************************)
InitPolicies ==
    /\ clock = 0
    /\ saves = FixedSaves
    /\ dirExists = TRUE
    /\ backups = {}
    /\ compress = TRUE
    /\ keepLastN \in KeepValues
    /\ quotas = <<>>
    /\ defaultQuota \in QuotaValues
    /\ locked = {}
    /\ parser = NoParser
    /\ db = NoDb
    /\ passes = NoPasses
    /\ poller = NoPoller
    /\ last = Idle

NextPolicies ==
    \/ Return
    \/ Tick
    \/ \E b \in BOOLEAN : UpdateCompressFolders(b)
    \/ \E s \in SaveNames : BackupSaveCall(s)
    \/ \E s \in SaveNames : EnforceQuotaCall(s)
    \/ \E s \in SaveNames : EnforceKeepLastCall(s)

SpecPolicies == InitPolicies /\ [][NextPolicies]_vars

(***************************************************************************)
(* The properties.  They speak of a call through the step that makes it,   *)
(* a step in which no time passes:                                         *)
(* the unprimed variables are the state before the call, the primed ones   *)
(* the state after it, last' the call with its result.                     *)
(***************************************************************************)
Calls(op) == last'.op = op /\ last.op \in {"none", op} /\ clock' = clock

\* the base name of an artifact: its name, minus ".zip" for an archive
BaseName(name) ==
    IF Len(name) >= 4 /\ SubSeq(name, Len(name) - 3, Len(name)) = ZipSuffix
    THEN SubSeq(name, 1, Len(name) - 4)
    ELSE name

HasLogicalName(name) == \E i \in 1..Len(BaseName(name)) : BaseName(name)[i] = "_"

\* the base name with the leading token up to the first "_" stripped
LogicalName(name) ==
    LET b == BaseName(name)
        i == CHOOSE i \in 1..Len(b) :
                 b[i] = "_" /\ \A j \in 1..(i - 1) : b[j] # "_"
    IN SubSeq(b, i + 1, Len(b))

\* the backups of the save X among the entries bk
BackupsOf(bk, X) ==
    {e \in bk : e.kind \in {"zip", "dir"} /\ HasLogicalName(e.name)
                /\ LogicalName(e.name) = X}

RECURSIVE SumSizes(_)
SumSizes(S) ==
    IF S = {} THEN 0
    ELSE LET e == CHOOSE x \in S : TRUE
         IN GetBackupSize(e) + SumSizes(S \ {e})

\* the entries of bk that the names of a returned list stand for
EntriesOf(bk, names) == {Lookup(bk, names[i]) : i \in 1..Len(names)}

\* the quota of the save X as the settings state it: its own entry when it
\* has one, the default otherwise
QuotaOf(X) == IF X \in DOMAIN quotas THEN quotas[X] ELSE defaultQuota

(***************************************************************************)
(* C1.  enforce_quota(name) with a resolved quota Q > 0 MB deletes nothing *)
(* when the summed size of the backups of name is at most Q * 1048576      *)
(* bytes.  Otherwise it deletes backups of name oldest first, by           *)
(* modification time ascending, and stops at the first point where the     *)
(* rest is at most the quota: what it returns is in ascending order of     *)
(* modification time, no survivor is older than a deleted backup, the rest *)
(* fits the quota, and the rest after any shorter prefix does not.         *)
(***************************************************************************)
C1_QuotaStep ==
    LET name == last'.name
        S == BackupsOf(backups, name)
        quotaBytes == QuotaOf(name) * 1048576
        r == last'.ret
        D == backups \ backups'
    IN /\ D \subseteq S
       /\ Len(r) = Cardinality(D)
       /\ \A i \in 1..Len(r) : r[i] \in Names(D)
       /\ SumSizes(S) <= quotaBytes => D = {}
       /\ SumSizes(S) > quotaBytes =>
            /\ D # {}
            /\ \A i, j \in 1..Len(r) :
                 i < j => Lookup(backups, r[i]).mtime <= Lookup(backups, r[j]).mtime
            /\ \A d \in D, e \in S \ D : d.mtime <= e.mtime
            /\ SumSizes(S \ D) <= quotaBytes
            /\ \A k \in 1..(Len(r) - 1) :
                 SumSizes(S \ EntriesOf(backups, SubSeq(r, 1, k))) > quotaBytes

C1_QuotaEviction ==
    [][Calls("enforce_quota") /\ QuotaOf(last'.name) > 0 => C1_QuotaStep]_vars

\* enforce_quota has deleted a backup of a save and left a newer one
C1_Witness ==
    /\ last.op = "enforce_quota"
    /\ last.ret # <<>>
    /\ QuotaOf(last.name) > 0
    /\ BackupsOf(backups, last.name) # {}

(***************************************************************************)
(* C2.  enforce_keep_last(name) with N backups of name and keepLastN = K   *)
(* deletes nothing when K <= 0 or N <= K.  Otherwise it deletes exactly    *)
(* N - K backups of name, those with the smallest modification times, and  *)
(* the K newest survive: no survivor is older than a deleted backup.       *)
(***************************************************************************)
C2_KeepLastStep ==
    LET S == BackupsOf(backups, last'.name)
        N == Cardinality(S)
        K == keepLastN
        D == backups \ backups'
    IN /\ D \subseteq S
       /\ EntriesOf(backups, last'.ret) = D
       /\ (K <= 0 \/ N <= K) => D = {}
       /\ (K > 0 /\ N > K) =>
            /\ Cardinality(D) = N - K
            /\ Cardinality(S \ D) = K
            /\ \A d \in D, e \in S \ D : d.mtime <= e.mtime

C2_KeepLast == [][Calls("enforce_keep_last") => C2_KeepLastStep]_vars

\* enforce_keep_last has deleted the older backups of a save and kept the
\* newest, a strictly newer one
C2_Witness ==
    /\ last.op = "enforce_keep_last"
    /\ last.ret # <<>>
    /\ keepLastN > 0
    /\ Cardinality(BackupsOf(backups, last.name)) = keepLastN
    /\ \E e \in BackupsOf(backups, last.name) : e.mtime > 0

(***************************************************************************)
(* C3.  get_backups with a filter F returns only entries whose logical     *)
(* name, derived from the base name, equals F; an entry whose base name    *)
(* has no "_" matches no filter.                                           *)
(***************************************************************************)
C3_FilterExact ==
    (last.op = "get_backups" /\ last.name # <<>>) =>
        \A i \in 1..Len(last.ret) :
            /\ HasLogicalName(last.ret[i])
            /\ LogicalName(last.ret[i]) = last.name

(***************************************************************************)
(* C4.  A retention operation for the save X deletes no artifact whose     *)
(* logical name differs from X, and counts no such artifact towards the    *)
(* total or the count of X: backups of X that fit the keep-last count or   *)
(* the quota by themselves all survive.                                    *)
(***************************************************************************)
C4_FrameStep ==
    LET X == last'.name
        S == BackupsOf(backups, X)
        D == backups \ backups'
    IN /\ \A d \in D : HasLogicalName(d.name) => LogicalName(d.name) = X
       /\ (last'.op = "enforce_keep_last" /\ Cardinality(S) <= keepLastN) => D = {}
       /\ (last'.op = "enforce_quota" /\ SumSizes(S) <= QuotaOf(X) * 1048576) => D = {}

C4_RetentionFrame ==
    [][(\/ Calls("enforce_keep_last")
        \/ Calls("enforce_quota")
        \/ Calls("back_up_saves")) => C4_FrameStep]_vars

(***************************************************************************)
(* C6.  The quota enforce_quota(name) uses is the entry of name in the     *)
(* per-save quotas when there is one, even 0, and the default otherwise:   *)
(* it deletes exactly when that quota is positive and the backups of name  *)
(* exceed it, so a quota of 0 or less disables the eviction.  After        *)
(* update_save_quota(name, q) the quota of name is q and the quota of      *)
(* every other save is what it was.                                        *)
(***************************************************************************)
C6_EnforceStep ==
    LET name == last'.name
        total == SumSizes(BackupsOf(backups, name))
    IN /\ QuotaOf(name) <= 0 => backups' = backups /\ last'.ret = <<>>
       /\ QuotaOf(name) > 0 =>
            (backups' # backups <=> total > QuotaOf(name) * 1048576)

C6_UpdateStep ==
    LET name == last'.name
    IN /\ ResolveSaveQuota(quotas', defaultQuota', name) = last'.num
       /\ \A other \in SaveNames \ {name} :
            ResolveSaveQuota(quotas', defaultQuota', other)
                = ResolveSaveQuota(quotas, defaultQuota, other)

C6_QuotaResolution ==
    [][/\ Calls("enforce_quota") => C6_EnforceStep
       /\ Calls("update_save_quota") => C6_UpdateStep]_vars

\* enforce_quota has kept backups that exceed the default quota, the quota of
\* the save being set to 0
C6_Witness ==
    /\ last.op = "enforce_quota"
    /\ last.name \in DOMAIN quotas
    /\ quotas[last.name] = 0
    /\ defaultQuota > 0
    /\ SumSizes(BackupsOf(backups, last.name)) > defaultQuota * 1048576

\* the files an artifact holds, by their paths
FilesOf(e) ==
    IF e.kind = "dir" THEN e.tree
    ELSE {f \in UNION Trees :
            [arcname |-> ArcName(f.path), data |-> f.data] \in e.members}

C7_ReplaceTarget ==
    [][(/\ last'.op = "restore_backup"
        /\ last.op # "restore_backup"
        /\ last'.err = ""
        /\ saves[last'.target].exists)
       => LET new == saves'[last'.target]
              art == FilesOf(Lookup(backups, last'.path))
          IN /\ new.exists
             /\ new.tree = art
             /\ \A f \in saves[last'.target].tree :
                  (\A g \in art : g.path # f.path)
                      => \A h \in new.tree : h.path # f.path]_vars

\* a restore has replaced a target that existed by an artifact with fewer
\* files
C7_Witness ==
    /\ last.op = "restore_backup"
    /\ last.err = ""
    /\ last.num = 1
    /\ saves[last.target].tree = TreeSmall
    /\ FilesOf(Lookup(backups, last.path)) = TreeSmall

(***************************************************************************)
(* C8.  restore_backup fails with a not-found error when the artifact      *)
(* path does not exist, and with an unsupported-format error when the      *)
(* path exists and is neither a directory nor a zip archive; the caller    *)
(* can tell the two failures apart.                                        *)
(***************************************************************************)
C8_RestoreErrors ==
    last.op = "restore_backup" =>
        /\ last.path \notin Names(backups) => last.err = "FileNotFoundError"
        /\ (last.path \in Names(backups) /\ Lookup(backups, last.path).kind = "raw")
              => last.err \notin {"", "FileNotFoundError"}

(***************************************************************************)
(* C9.  backup_save(S) for a save S that does not exist fails with a       *)
(* not-found error and creates nothing: neither an artifact nor the        *)
(* backup directory.                                                       *)
(***************************************************************************)
C9_MissingSave ==
    [][(Calls("backup_save") /\ ~saves[last'.name].exists)
       => /\ last'.err = "FileNotFoundError"
          /\ last'.path = <<>>
          /\ backups' = backups
          /\ dirExists' = dirExists]_vars

\* backup_save has failed for a missing save, the backup directory missing
\* too
C9_Witness ==
    /\ last.op = "backup_save"
    /\ last.err = "FileNotFoundError"
    /\ ~saves[last.name].exists
    /\ ~dirExists

(***************************************************************************)
(* C10.  With compression off, backup_save(S) fails with an already-exists *)
(* error when the destination {timestamp}_{S} exists, and leaves the       *)
(* artifact that is there as it was.                                       *)
(***************************************************************************)
C10_Destination == IntToStr(clock) \o <<"_">> \o last'.name

C10_NoOverwrite ==
    [][(/\ Calls("backup_save")
        /\ ~compress
        /\ saves[last'.name].exists
        /\ C10_Destination \in Names(backups))
       => /\ last'.err = "FileExistsError"
          /\ backups' = backups]_vars

\* backup_save has failed on a destination that holds other files than the
\* save has now
C10_Witness ==
    /\ last.op = "backup_save"
    /\ last.err = "FileExistsError"
    /\ ~compress
    /\ \E e \in backups :
         /\ e.name = IntToStr(clock) \o <<"_">> \o last.name
         /\ e.kind = "dir"
         /\ e.tree # saves[last.name].tree

(***************************************************************************)
(* C11.  As stated: backup_save, enforce_quota and enforce_keep_last are   *)
(* idempotent; a second call directly after the first, the settings and    *)
(* the save unchanged, creates and deletes nothing.                        *)
(***************************************************************************)
Repeated(op) ==
    /\ last.op = op
    /\ last'.op = op
    /\ last'.name = last.name
    /\ last'.num > 0
    /\ last.err = ""
    /\ clock' = clock

C12_Victims(op, name, order) ==
    IF op = "enforce_quota"
    THEN EnforceQuotaRemoved(quotas, defaultQuota, GetBackups(dirExists, order), name)
    ELSE EnforceKeepLastRemoved(keepLastN, GetBackups(dirExists, order))

C12_Step(op) ==
    /\ last'.err = ""
    /\ \E order \in Listings(Appended(backups, last'.name)) :
         LET victims == C12_Victims(op, last'.name, order)
         IN /\ last'.ret = NamesOf(victims)
            /\ \A i \in 1..Len(victims) :
                 victims[i].name \notin locked => victims[i] \notin backups'

C12_FailureSwallowed ==
    [][/\ Calls("enforce_quota") => C12_Step("enforce_quota")
       /\ Calls("enforce_keep_last") => C12_Step("enforce_keep_last")]_vars

(***************************************************************************)
(* C13.  get_backups returns its entries newest first, by non-increasing   *)
(* modification time; it returns only directories and files with the       *)
(* extension .zip, any other file in the backup directory being left out   *)
(* with or without a filter; when the backup directory does not exist it   *)
(* returns the empty list and raises nothing.                              *)
(***************************************************************************)
C13_Listing ==
    last.op = "get_backups" =>
        /\ last.err = ""
        /\ \A i, j \in 1..Len(last.ret) :
             i < j => Lookup(backups, last.ret[i]).mtime
                        >= Lookup(backups, last.ret[j]).mtime
        /\ \A i \in 1..Len(last.ret) :
             LET e == Lookup(backups, last.ret[i])
             IN \/ e.kind = "dir"
                \/ e.kind # "dir" /\ Len(e.name) >= 4
                   /\ SubSeq(e.name, Len(e.name) - 3, Len(e.name)) = ZipSuffix
        /\ ~dirExists => last.ret = <<>>

\* get_backups with a filter has returned an artifact and left out the loose
\* file beside it
C13_Witness ==
    /\ last.op = "get_backups"
    /\ last.name # <<>>
    /\ Len(last.ret) >= 1
    /\ LooseName \in Names(backups)
    /\ \A i \in 1..Len(last.ret) : last.ret[i] # LooseName

(***************************************************************************)
(* C14.  get_save_disk_usage(name) returns (save_bytes, backup_bytes):     *)
(* save_bytes the summed size of the files under the save directory, 0     *)
(* when it does not exist; backup_bytes the sum, over exactly the backup   *)
(* artifacts whose logical name is name, of the file size of an archive    *)
(* or the summed file sizes of a directory.                                *)
(***************************************************************************)
C14_DiskUsage ==
    last.op = "get_save_disk_usage" =>
        /\ last.ret[1] = (IF saves[last.name].exists
                          THEN SumData(saves[last.name].tree) ELSE 0)
        /\ last.ret[2] = SumSizes(BackupsOf(backups, last.name))

(***************************************************************************)
(* C15.  A read on short input returns a zero value: read_byte,            *)
(* read_short, read_int and read_double return 0 (0.0) when fewer bytes    *)
(* remain than their width; read_string returns the empty string when the  *)
(* declared length is zero or runs over the end of the buffer;             *)
(* read_value_by_type returns None for the tags 0x00, 0x03 and every tag   *)
(* outside 0x00..0x05, and leaves the position where it was.               *)
(***************************************************************************)
C15_Remaining == Len(parser.data) - parser.position

C15_DeclaredLength ==
    parser.data[parser.position + 1] * 256 + parser.data[parser.position + 2]

C15_Step ==
    /\ (parser'.op = "read_byte" /\ C15_Remaining < 1)
          => parser'.out.t = "int" /\ parser'.out.v = 0
    /\ (parser'.op = "read_short" /\ C15_Remaining < 2)
          => parser'.out.t = "int" /\ parser'.out.v = 0
    /\ (parser'.op = "read_int" /\ C15_Remaining < 4)
          => parser'.out.t = "int" /\ parser'.out.v = 0
    /\ (parser'.op = "read_double" /\ C15_Remaining < 8)
          => parser'.out.t = "float" /\ parser'.out.v = <<0, 0, 0, 0, 0, 0, 0, 0>>
    /\ (/\ parser'.op = "read_string"
        /\ \/ C15_Remaining < 2
           \/ C15_DeclaredLength = 0
           \/ C15_DeclaredLength > C15_Remaining - 2)
          => parser'.out.t = "str" /\ parser'.out.v = <<>>
    /\ (parser'.op = "read_value_by_type" /\ parser'.tag \notin {1, 2, 4, 5})
          => /\ parser'.out.t = "None"
             /\ parser'.position = parser.position

C15_ShortReads == [][parser.op # "scan" => C15_Step]_vars

\* read_string has met a declared length that runs over the end of the
\* buffer and has returned the empty string
C15_Witness ==
    /\ parser.op = "read_string"
    /\ parser.position >= 2
    /\ parser.position < Len(parser.data)
    /\ parser.data[parser.position - 1] * 256 + parser.data[parser.position]
          > Len(parser.data) - parser.position
    /\ parser.out.v = <<>>

(***************************************************************************)
(* C16.  parse_character_data keeps looking for a marker as long as at     *)
(* least 10 bytes remain after the cursor and stops only when fewer than   *)
(* 10 remain; an interest entry that starts exactly 10 bytes before the    *)
(* end of the buffer is examined and recorded.                             *)
(***************************************************************************)
C16_KeyAt(data, pos) ==
    SubSeq(data, pos + 4, pos + 3 + data[pos + 2] * 256 + data[pos + 3])

C16_EntryAt(data, pos) ==
    /\ data[pos + 1] = 2
    /\ data[pos + 2] * 256 + data[pos + 3] > 1
    /\ pos + 3 + data[pos + 2] * 256 + data[pos + 3] < Len(data)
    /\ \A i \in 1..Len(C16_KeyAt(data, pos)) : C16_KeyAt(data, pos)[i] < 128
    /\ IsInteresting(C16_KeyAt(data, pos))

C16_ScanToLastTen ==
    parser.op = "parse_character_data" =>
        /\ Len(parser.data) - parser.position < 10
        /\ (Len(parser.data) = 10 /\ C16_EntryAt(parser.data, 0))
              => C16_KeyAt(parser.data, 0) \in DOMAIN parser.out.v

(***************************************************************************)
(* C17.  The result of parse_character_data maps a key to a value exactly  *)
(* when the scan met a marker 0x02 followed by a length-prefixed key of    *)
(* valid UTF-8 whose lower-cased form contains one of the ten keywords:    *)
(* such an iteration sets the key to the value read after it, replacing    *)
(* the value of an earlier occurrence, and every other iteration leaves    *)
(* the result as it was; what is returned is the result of the last        *)
(* iteration.                                                              *)
(***************************************************************************)
C17_Length == parser.data[parser.position + 2] * 256 + parser.data[parser.position + 3]

C17_Key == SubSeq(parser.data, parser.position + 4, parser.position + 3 + C17_Length)

C17_SameLetter(code, letter) == code = letter \/ code = letter - 32

C17_Matches(key) ==
    \E keyword \in keyword_targets :
        \E i \in 0..(Len(key) - Len(keyword)) :
            \A j \in 1..Len(keyword) : C17_SameLetter(key[i + j], keyword[j])

C17_ValidKey ==
    /\ parser.data[parser.position + 1] = 2
    /\ 1 < C17_Length
    /\ C17_Length < 200
    /\ parser.position + 3 + C17_Length <= Len(parser.data)
    /\ \A i \in 1..Len(C17_Key) : C17_Key[i] < 128

C17_ValueRead ==
    LET tag == ReadByte(parser.data, parser.position + 3 + C17_Length)
    IN ReadValueByType(parser.data, tag.position, tag.value).value

C17_Step ==
    IF C17_ValidKey /\ C17_Matches(C17_Key)
    THEN /\ DOMAIN parser'.info = DOMAIN parser.info \cup {C17_Key}
         /\ parser'.info[C17_Key] = C17_ValueRead
         /\ \A k \in DOMAIN parser.info \ {C17_Key} : parser'.info[k] = parser.info[k]
    ELSE parser'.info = parser.info

C17_InterestKeys ==
    [][/\ (parser.op = "scan" /\ parser'.op = "scan") => C17_Step
       /\ (parser.op = "scan" /\ parser'.op = "parse_character_data")
             => parser'.out.v = parser.info
       /\ (parser.op # "scan" /\ parser'.op = "scan") => parser'.info = <<>>]_vars

\* the buffer holds name = "Al", then name = False, then a key that does not
\* match: the result has name = False and Kill, written in capitals, or
\* nothing else
C17_Witness ==
    /\ parser.op = "parse_character_data"
    /\ Len(parser.data) >= 20
    /\ SubSeq(parser.data, 1, 12) \in Entries
    /\ SubSeq(parser.data, 13, 20) \in Entries
    /\ DOMAIN parser.out.v = {SubSeq(parser.data, 4, 7)}
    /\ parser.out.v[SubSeq(parser.data, 4, 7)].t = "bool"

(***************************************************************************)
(* C18.  When players.db yields no player record (the table localPlayers   *)
(* is empty or cannot be queried) and a row of survivors exists, both      *)
(* get_player_info and get_save_stats give the character name "Unknown",   *)
(* the hours and zombie kills of that row with null as 0, and no traits.   *)
(***************************************************************************)
C18_IsUnknown(value) ==
    value.t = "str" /\ value.v = <<85, 110, 107, 110, 111, 119, 110>>

C18_IsAggregate(value, column) ==
    value.t = "int" /\ value.v = (IF column.t = "None" THEN 0 ELSE column.v)

C18_NoTraits(value) == value.t = "list" /\ value.v = <<>>

C18_SurvivorRow(tables) ==
    /\ db.exists
    /\ db.connect = "ok"
    /\ db.localPlayers \in tables
    /\ db.survivors = "row"

C18_InfoFallback ==
    /\ last.err = ""
    /\ last.ret.t = "dict"
    /\ DOMAIN last.ret.v = {"character_name", "hours_survived", "zombies_killed", "traits"}
    /\ C18_IsUnknown(last.ret.v.character_name)
    /\ C18_IsAggregate(last.ret.v.hours_survived, db.hours)
    /\ C18_IsAggregate(last.ret.v.zombies_killed, db.zombiekills)
    /\ C18_NoTraits(last.ret.v.traits)

C18_StatsFallback ==
    /\ last.err = ""
    /\ last.ret.t = "dict"
    /\ DOMAIN last.ret.v = {"character_name", "hours", "zombies", "traits"}
    /\ C18_IsUnknown(last.ret.v.character_name)
    /\ C18_IsAggregate(last.ret.v.hours, db.hours)
    /\ C18_IsAggregate(last.ret.v.zombies, db.zombiekills)
    /\ C18_NoTraits(last.ret.v.traits)

\* as claimed: the fallback of both functions, for an empty and for a missing
\* table
C18_Fallback ==
    /\ (last.op = "get_player_info" /\ C18_SurvivorRow({"empty", "missing"}))
          => C18_InfoFallback
    /\ (last.op = "get_save_stats" /\ C18_SurvivorRow({"empty", "missing"}))
          => C18_StatsFallback

\* C18 as amended: get_player_info falls back for an empty table and returns
\* None for a table that cannot be queried; get_save_stats falls back in both
\* cases
C18_FallbackChain ==
    /\ (last.op = "get_player_info" /\ C18_SurvivorRow({"empty"}))
          => C18_InfoFallback
    /\ (last.op = "get_player_info" /\ C18_SurvivorRow({"missing"}))
          => (last.err = "" /\ last.ret.t = "None")
    /\ (last.op = "get_save_stats" /\ C18_SurvivorRow({"empty", "missing"}))
          => C18_StatsFallback

\* get_player_info has fallen back to a survivors row whose hours are null
C18_Witness ==
    /\ last.op = "get_player_info"
    /\ C18_SurvivorRow({"empty"})
    /\ db.hours.t = "None"
    /\ db.zombiekills.t = "int"
    /\ last.ret.t = "dict"
    /\ last.ret.v.hours_survived.t = "int"
    /\ last.ret.v.zombies_killed.v = 12

(***************************************************************************)
(* C19.  get_player_info never raises: it returns None when players.db     *)
(* does not exist and when any data-access step fails (the connection, a   *)
(* missing table, a payload that cannot be read).                          *)
(***************************************************************************)
C19_OpenFails == db.connect # "ok"

C19_PlayersFail == db.connect = "ok" /\ db.localPlayers = "missing"

C19_PayloadFails ==
    db.connect = "ok" /\ db.localPlayers = "row" /\ db.data.t # "bytes"

C19_SurvivorsFail(tables) ==
    /\ db.connect = "ok"
    /\ db.localPlayers \in tables
    /\ ~C19_PayloadFails
    /\ db.survivors = "missing"

\* as claimed: None whatever step fails
C19_NeverRaises ==
    last.op = "get_player_info" =>
        /\ last.err = ""
        /\ (\/ ~db.exists
            \/ C19_OpenFails
            \/ C19_PlayersFail
            \/ C19_PayloadFails
            \/ C19_SurvivorsFail({"empty", "row"})) => last.ret.t = "None"

\* C19 as amended: the failure of the survivors query that follows a player
\* row is the one failure that does not make the result None: the record of
\* the player is returned with 0 hours and 0 kills
C19_BestEffort ==
    last.op = "get_player_info" =>
        /\ last.err = ""
        /\ (\/ ~db.exists
            \/ C19_OpenFails
            \/ C19_PlayersFail
            \/ C19_PayloadFails
            \/ C19_SurvivorsFail({"empty"})) => last.ret.t = "None"
        /\ (db.exists /\ C19_SurvivorsFail({"row"})) =>
              /\ last.ret.t = "dict"
              /\ last.ret.v.hours_survived = IntValue(0)
              /\ last.ret.v.zombies_killed = IntValue(0)

\* the payload of the player row is NULL and get_player_info has returned None
C19_Witness ==
    /\ last.op = "get_player_info"
    /\ db.exists
    /\ C19_PayloadFails
    /\ last.err = ""
    /\ last.ret.t = "None"

(***************************************************************************)
(* C20.  Two enforce_quota passes for the same save, interleaved statement *)
(* by statement, can race: together they delete an artifact that the       *)
(* passes run one after the other would have kept, or one of them fails on *)
(* an entry the other has removed.  Both happen only to a pass whose list  *)
(* holds an entry that the other pass has removed, which no pass run after *)
(* the other has: run one after the other, the passes keep what one pass   *)
(* keeps and do not fail.                                                  *)
(***************************************************************************)
C20_Listed == GetBackups(TRUE, CHOOSE order \in Listings(RaceCatalog) : TRUE)

C20_SerialKept ==
    RemoveAll(RaceCatalog, EnforceQuotaRemoved(quotas, defaultQuota, C20_Listed, <<"A">>))

C20_OverDeleted == \E e \in C20_SerialKept : e \notin backups

C20_Overtaken(p) ==
    \E i \in 1..Len(passes[p].backups) :
        \E q \in Procs \ {p} :
            \E j \in 1..Len(passes[q].removed) :
                passes[q].removed[j] = passes[p].backups[i].name

C20_RaceStep(p) ==
    (/\ passes'[p] # passes[p]
     /\ \/ (backups' # backups /\ C20_OverDeleted' /\ ~C20_OverDeleted)
        \/ (passes'[p].err # "" /\ passes[p].err = ""))
        => C20_Overtaken(p)

C20_Race == [][\A p \in Procs : C20_RaceStep(p)]_vars

\* both passes have returned without an error and an artifact that one pass
\* alone keeps is gone
C20_Witness ==
    /\ \A p \in Procs : passes[p].pc = "done" /\ passes[p].err = ""
    /\ \E p \in Procs : passes[p].removed # <<>>
    /\ C20_OverDeleted

(***************************************************************************)
(* C21.  save_poller backs up on its first iteration whatever the          *)
(* interval; afterwards it backs up only when the clock has reached        *)
(* next_save_time; after each backup next_save_time is the time of that    *)
(* moment plus the interval; KeyboardInterrupt ends the loop with exit     *)
(* code 0 and a ValueError of the backup ends it with exit code 1.         *)
(***************************************************************************)
C21_Tested == poller.pc = "test" /\ poller'.pc # "test" /\ poller'.err # "KeyboardInterrupt"

C21_BackupRun ==
    \/ poller'.pc = "exit" /\ poller'.err = "ValueError"
    \/ /\ poller'.pc = "schedule"
       /\ poller'.printed \in {ZipName(clock, <<"A">>),
                               ZipName(clock, <<"A">>) \o ZipSuffix}

C21_Skipped == poller'.pc = "sleep" /\ backups' = backups /\ poller'.printed = poller.printed

C21_Step ==
    /\ (C21_Tested /\ poller.has_just_started) => C21_BackupRun
    /\ (C21_Tested /\ ~poller.has_just_started) =>
          IF clock >= poller.next_save_time THEN C21_BackupRun ELSE C21_Skipped
    /\ (poller.pc = "schedule" /\ poller'.pc = "sleep") =>
          poller'.next_save_time = clock + poller.save_interval_sec
    /\ (poller.pc # "schedule" /\ poller.pc # "new") =>
          poller'.next_save_time = poller.next_save_time
    /\ (poller.pc # "exit" /\ poller'.pc = "exit") =>
          /\ poller'.err = "KeyboardInterrupt" => poller'.code = 0
          /\ poller'.err = "ValueError" => poller'.code = 1
          /\ poller'.err \in {"KeyboardInterrupt", "ValueError"}

C21_Poller == [][C21_Step]_vars

\* the poller has slept, has found the interval elapsed, has archived the save
\* a second time and has rescheduled; Ctrl-C has then ended it with code 0
C21_Witness ==
    /\ poller.pc = "exit"
    /\ poller.code = 0
    /\ poller.save_interval_sec > 0
    /\ clock >= SleepSec
    /\ poller.printed \in {ZipName(clock, <<"A">>), ZipName(clock, <<"A">>) \o ZipSuffix}
    /\ poller.next_save_time = clock + poller.save_interval_sec

(***************************************************************************)
(* C22.  Both policies evict oldest first: when enforce_quota or           *)
(* enforce_keep_last returns, no backup of the save that is left has a     *)
(* modification time smaller than that of an entry the call deleted, and   *)
(* the list returned names the deleted entries in ascending order of       *)
(* modification time.                                                      *)
(***************************************************************************)
C22_Step ==
    LET deleted == backups \ backups'
        victims == last'.ret
    IN /\ \A d \in deleted :
            \A e \in BackupsOf(backups', last'.name) : ~(e.mtime < d.mtime)
       /\ {victims[i] : i \in 1..Len(victims)} = Names(deleted)
       /\ \A i \in 1..Len(victims) :
            \A j \in (i + 1)..Len(victims) :
               Lookup(backups, victims[i]).mtime <= Lookup(backups, victims[j]).mtime

C22_OldestFirst ==
    [][((Calls("enforce_quota") \/ Calls("enforce_keep_last")) /\ last'.err = "")
          => C22_Step]_vars

\* a call has deleted two entries and has returned their names
C22_Witness ==
    /\ last.op \in {"enforce_quota", "enforce_keep_last"}
    /\ last.err = ""
    /\ Len(last.ret) = 2
    /\ last.ret[1] # last.ret[2]

(***************************************************************************)
(* C23.  When the length that follows a marker 0x02 is rejected (not       *)
(* strictly between 1 and 200, or running past the end of the buffer), the *)
(* scan resumes at the byte right after the marker, so that a marker       *)
(* sitting in one of the two length bytes is examined and its entry        *)
(* recorded.                                                               *)
(***************************************************************************)
C23_Rejected(data, pos) ==
    /\ pos + 3 <= Len(data)
    /\ data[pos + 1] = 2
    /\ LET length == data[pos + 2] * 256 + data[pos + 3]
       IN ~(1 < length /\ length < 200 /\ pos + 3 + length <= Len(data))

C23_Resync ==
    [][/\ (parser.op = "scan" /\ parser'.op = "scan"
              /\ C23_Rejected(parser.data, parser.position))
          => parser'.position = parser.position + 1
       /\ (parser.op = "scan" /\ parser'.op = "parse_character_data"
              /\ C23_Rejected(parser.data, 0)
              /\ Scanning(parser.data, 1)
              /\ C16_EntryAt(parser.data, 1))
          => C16_KeyAt(parser.data, 1) \in DOMAIN parser'.out.v]_vars

(***************************************************************************)
(* C24.  After a backup, perform_backup runs enforce_quota, then           *)
(* enforce_keep_last, and reports the two lists of victims joined, each    *)
(* path once at the place it is first seen (the victims of the quota       *)
(* before those of keep-last): every deleted path is in the list reported  *)
(* exactly once.                                                           *)
(***************************************************************************)
C24_FirstSeen(paths) ==
    LET firsts == {i \in 1..Len(paths) : \A j \in 1..(i - 1) : paths[j] # paths[i]}
    IN [k \in 1..Cardinality(firsts) |->
           paths[CHOOSE i \in firsts : Cardinality({j \in firsts : j <= i}) = k]]

C24_Times(path, paths) == Cardinality({i \in 1..Len(paths) : paths[i] = path})

C24_Step ==
    LET made == BackupSave(saves, backups, compress, last'.name, clock).backups
    IN /\ \A path \in Names(made) \ Names(backups') : C24_Times(path, last'.ret) = 1
       /\ \A i \in 1..Len(last'.ret) : C24_Times(last'.ret[i], last'.ret) = 1
       /\ \E first \in Listings(Appended(made, last'.name)) :
            LET quota == EnforceQuotaRemoved(quotas, defaultQuota,
                                             GetBackups(dirExists', first), last'.name)
                rest == made \ {e \in ToSet(quota) : e.name \notin locked}
            IN \E second \in Listings(Appended(rest, last'.name)) :
                 last'.ret = C24_FirstSeen(
                     NamesOf(quota)
                        \o NamesOf(EnforceKeepLastRemoved(keepLastN,
                                                          GetBackups(dirExists', second))))

C25_Newest(S) == {e \in S : \A f \in S : f.mtime <= e.mtime}

C25_Step ==
    LET S == BackupsOf(backups, last'.name)
        quotaBytes == QuotaOf(last'.name) * 1048576
    IN /\ (\E e \in C25_Newest(S) : SumSizes({e}) > quotaBytes) =>
             /\ BackupsOf(backups', last'.name) = {}
             /\ Len(last'.ret) >= Cardinality(S)
             /\ \A e \in S : \E i \in 1..Len(last'.ret) : last'.ret[i] = e.name
       /\ \A e \in S : SumSizes({e}) > quotaBytes => e \notin backups'

C25_OversizedNewest ==
    [][(Calls("enforce_quota") /\ QuotaOf(last'.name) > 0) => C25_Step]_vars

\* enforce_quota has deleted the two backups of a save, each larger than the
\* quota, the one taken in the current second included
C25_Witness ==
    /\ last.op = "enforce_quota"
    /\ Len(last.ret) = 2
    /\ QuotaOf(last.name) > 0
    /\ BackupsOf(backups, last.name) = {}
    /\ \E i \in 1..2 : last.ret[i] \in {ZipName(clock, last.name),
                                        ZipName(clock, last.name) \o ZipSuffix}

(***************************************************************************)
(* C26.  When restore_backup fails, because the artifact path does not     *)
(* exist or is neither an archive nor a directory, a target save           *)
(* directory that existed before the call is left as it was.               *)
(***************************************************************************)
C26_FailedRestoreKeepsTarget ==
    [][(/\ last'.op = "restore_backup"
        /\ last.op # "restore_backup"
        /\ last'.err # ""
        /\ saves[last'.target].exists)
       => saves'[last'.target] = saves[last'.target]]_vars

(***************************************************************************)
(* C27.  Every successful backup_save adds exactly one new artifact to     *)
(* the catalog and leaves every artifact that was there unchanged, with    *)
(* and without compression; two successful backups of one save within one  *)
(* clock second never have one artifact replace the other.                 *)
(***************************************************************************)
C27_AddsOne ==
    [][(Calls("backup_save") /\ last'.err = "")
       => \E e \in backups' :
             /\ e.name = last'.path
             /\ e.name \notin Names(backups)
             /\ backups' = backups \cup {e}]_vars

(***************************************************************************)
(* C28.  The two eviction policies commute.  For a catalog that holds      *)
(* backups of one save only, with pairwise distinct modification times and *)
(* every deletion succeeding, enforce_quota followed by enforce_keep_last  *)
(* leaves the same backups as enforce_keep_last followed by enforce_quota; *)
(* afterwards at most keepLastN backups are left when keepLastN > 0, and   *)
(* at most quota MB when the quota is > 0 (a setting of 0 sets no limit).  *)
(***************************************************************************)
C28_List(bk, X) ==
    GetBackups(dirExists, CHOOSE order \in Listings(Appended(bk, X)) : TRUE)

C28_AfterQuota(bk, X) ==
    RemoveAll(bk, EnforceQuotaRemoved(quotas, defaultQuota, C28_List(bk, X), X))

C28_AfterKeepLast(bk, X) ==
    RemoveAll(bk, EnforceKeepLastRemoved(keepLastN, C28_List(bk, X)))

C28_OneSave(X) ==
    /\ backups # {}
    /\ BackupsOf(backups, X) = backups
    /\ \A e, f \in backups : e # f => e.mtime # f.mtime
    /\ locked = {}

C28_Bounds(F, X) ==
    /\ keepLastN > 0 => Cardinality(F) <= keepLastN
    /\ QuotaOf(X) > 0 => SumSizes(F) <= QuotaOf(X) * 1048576

C28_Step ==
    LET X == last'.name
        other == IF last'.op = "enforce_quota"
                 THEN C28_AfterQuota(C28_AfterKeepLast(backups, X), X)
                 ELSE C28_AfterKeepLast(C28_AfterQuota(backups, X), X)
        this == IF last'.op = "enforce_quota"
                THEN C28_AfterKeepLast(backups', X)
                ELSE C28_AfterQuota(backups', X)
    IN /\ this = other
       /\ C28_Bounds(this, X)

C28_Commute ==
    [][((Calls("enforce_quota") \/ Calls("enforce_keep_last"))
        /\ last'.err = "" /\ C28_OneSave(last'.name)) => C28_Step]_vars

\* enforce_keep_last has cut a catalog of two backups, taken at different
\* seconds and together over the quota, down to the one that the quota allows
C28_Witness ==
    /\ last.op = "enforce_keep_last"
    /\ last.err = ""
    /\ Len(last.ret) = 1
    /\ keepLastN = 1
    /\ Cardinality(backups) = 1
    /\ BackupsOf(backups, last.name) = backups
    /\ \A e \in backups : e.mtime > 0 /\ ZipName(0, last.name) \o ZipSuffix = last.ret[1]
    /\ SumSizes(backups) <= QuotaOf(last.name) * 1048576
    /\ 2 * SumSizes(backups) > QuotaOf(last.name) * 1048576

(***************************************************************************)
(* C29.  The cursor of the parser.  From position 0 on, after any          *)
(* sequence of read_byte, read_short, read_int, read_double, read_string,  *)
(* read_value_by_type and parse_character_data calls,                      *)
(* 0 <= position <= len(data); a primitive read (byte, short, int, double) *)
(* that would run over the end leaves the position where it was; and the   *)
(* position never decreases, but for the reset to 0 on entry to            *)
(* parse_character_data.                                                   *)
(***************************************************************************)
C29_InBuffer(p) == 0 <= p.position /\ p.position <= Len(p.data)

C29_Width(op) ==
    IF op = "read_byte" THEN 1
    ELSE IF op = "read_short" THEN 2
    ELSE IF op = "read_int" THEN 4
    ELSE 8

C29_Primitive == {"read_byte", "read_short", "read_int", "read_double"}

C29_Reset == parser.op # "scan" /\ parser'.op = "scan"

C29_Step ==
    /\ C29_InBuffer(parser')
    /\ (/\ parser.op # "scan"
        /\ parser'.op \in C29_Primitive
        /\ parser.position + C29_Width(parser'.op) > Len(parser.data))
          => parser'.position = parser.position
    /\ IF C29_Reset THEN parser'.position = 0
       ELSE parser'.position >= parser.position

C29_Cursor == C29_InBuffer(parser) /\ [][C29_Step]_vars

\* read_int has met fewer than four bytes, not at the start and not at the
\* end of the buffer, and has left the position where it was
C29_Witness ==
    /\ parser.op = "read_int"
    /\ parser.position > 0
    /\ parser.position < 4
    /\ parser.position < Len(parser.data)
    /\ parser.position + 4 > Len(parser.data)
    /\ parser.out.v = 0

(***************************************************************************)
(* C30.  parse_character_data terminates on every finite buffer, the       *)
(* empty, the truncated and the adversarial ones: each iteration of its    *)
(* loop moves the cursor forward by at least one byte, so the loop runs    *)
(* at most len(data) times and the call returns.                           *)
(***************************************************************************)
C30_Iteration == parser.op = "scan" /\ parser'.op = "scan"

C30_Step ==
    /\ parser'.position >= parser.position + 1
    /\ parser'.iterations = parser.iterations + 1
    /\ parser'.iterations <= Len(parser.data)

C30_Terminates ==
    /\ [][C30_Iteration => C30_Step]_vars
    /\ (parser.op = "scan") ~> (parser.op = "parse_character_data")

\* the scan has run to its end in more than one iteration, over a marker
\* whose length was rejected
C30_Witness ==
    /\ parser.op = "scan"
    /\ ~Scanning(parser.data, parser.position)
    /\ parser.iterations >= 2
    /\ parser.iterations < parser.position
    /\ parser.info = <<>>
    /\ parser.data[1] = 2

====
